---- MODULE Spec2Model ----
(***************************************************************************)
(* OBK Gear Optimiser: the enumeration-and-selection engine                *)
(* (obk/optimiser.py), the score functions (obk/scoring.py), the range      *)
(* estimator (obk/ranges.py) and the catalog accessor (df_from_category).   *)
(*                                                                         *)
(* Numbers.  The program computes in floating point; the model computes in  *)
(* exact fixed point:                                                      *)
(*   - a raw stat is an integer number of stat units;                      *)
(*   - a coefficient and a main score are in 1/CoefScale units;            *)
(*   - a weight is in 1/WeightScale units;                                 *)
(*   - an estimated range is in 1/RangeScale of the unit of its quantity,  *)
(*     so that the 5% padding is exact;                                    *)
(*   - an objective is an integer numerator over the run's objective       *)
(*     denominator ObjDen, the same for every build of one run.            *)
(* Floating-point rounding is not modelled.                                *)
(***************************************************************************)
EXTENDS Integers, Sequences, FiniteSets, TLC

VARIABLES
    inventory,    \* optimise_builds argument: category -> set of selected names
    config,       \* optimise_builds argument: the OptimiseConfig object
    tie,          \* how the build's sort orders rows of equal objective
    pc,           \* position in optimise_builds / _diversify_by_parts
    err,          \* the exception raised, [kind |-> "none"] while none
    pair_work,    \* whether a computation over the trinket pairs has started
    dfE, dfX, dfS, dfG, dfT,   \* locals: the five tables after _filter
    main_ranges,  \* local of optimise_builds (None while not estimated)
    raw_ranges,   \* local of optimise_builds (None while not estimated)
    base,         \* local: stat totals of the engine x exhaust x suspension x gearbox rows
    t1, t2,       \* locals: the trinket indices of every pair
    pair_stats,   \* local: stat totals of every trinket pair
    p_i,          \* index of the next trinket pair of the outer loop
    results,      \* local list of candidate rows of optimise_builds
    df,           \* the candidate table after sort / drop_duplicates
    selected,     \* _diversify_by_parts: indices chosen so far
    counts,       \* _diversify_by_parts: column -> part name -> uses
    cur_min,      \* _diversify_by_parts: threshold in force
    picked,       \* _diversify_by_parts: whether the last scan accepted a row
    result,       \* the returned table (None while not returned)
    hist,         \* the config object as the caller passed it, and the previous call
    session       \* the app: its widgets and st.session_state

vars == << inventory, config, tie, pc, err, pair_work, dfE, dfX, dfS, dfG, dfT,
           main_ranges, raw_ranges, base, t1, t2, pair_stats,
           p_i, results, df, selected, counts, cur_min, picked, result, hist, session >>

\* Python's None and a present value: an absent value is the empty tuple
None == << >>
Some(v) == << v >>
IsNone(o) == Len(o) = 0
Val(o) == o[1]

\* A Python dict: the sequence of its (key, value) items in insertion order
EmptyDict == << >>
Keys(d) == { d[j][1] : j \in 1..Len(d) }
Get(d, k) == d[CHOOSE j \in 1..Len(d) : d[j][1] = k][2]

\* ------------------------------------------------------------------------
\* Fixed-point units
\* ------------------------------------------------------------------------
CoefScale == 10
WeightScale == 2
RangeScale == 20

\* ------------------------------------------------------------------------
\* Bounds of the model
\* ------------------------------------------------------------------------
MaxTopN == 3
MaxLim == 1

\* ------------------------------------------------------------------------
\* Generic helpers
\* ------------------------------------------------------------------------
Max(a, b) == IF a >= b THEN a ELSE b
Min(a, b) == IF a <= b THEN a ELSE b

RECURSIVE Gcd(_, _)
Gcd(a, b) == IF b = 0 THEN a ELSE Gcd(b, a % b)
Lcm(a, b) == (a \div Gcd(a, b)) * b

RECURSIVE SumSeq(_)
SumSeq(s) == IF s = << >> THEN 0 ELSE Head(s) + SumSeq(Tail(s))

RECURSIVE LcmSeq(_)
LcmSeq(s) == IF s = << >> THEN 1 ELSE Lcm(Head(s), LcmSeq(Tail(s)))

SetMin(S) == CHOOSE x \in S : \A y \in S : x <= y
SetMax(S) == CHOOSE x \in S : \A y \in S : x >= y

Range(s) == { s[i] : i \in DOMAIN s }

\* ------------------------------------------------------------------------
\* obk/constants.py
\* ------------------------------------------------------------------------
CATEGORIES == << "ENGINE", "EXHAUST", "SUSPENSION", "GEARBOX", "TRINKET" >>
MAIN_SCORES == << "race", "coin", "drift", "combat" >>

RAW_STAT_KEYS ==
    << "Speed", "StartBoost", "SlipStreamSpd", "SlowDownSpd",
       "StartCoins", "MaxCoins", "CoinBoostSpd", "CoinBoostTime",
       "DriftSteer", "Steer", "AirDriftTime",
       "UltCharge", "Daze", "SlipStreamRadius",
       "TrickSpd", "BoostPads", "MaxCoinsSpd", "SlipTime", "UltStart", "DriftRate",
       "T1", "T2", "T3" >>

NKeys == Len(RAW_STAT_KEYS)

\* KEY2IDX = {k: i for i, k in enumerate(RAW_STAT_KEYS)}: 0-based positions
KEY2IDX ==
    [ k \in Range(RAW_STAT_KEYS) |-> (CHOOSE j \in 1..NKeys : RAW_STAT_KEYS[j] = k) - 1 ]
KnownKey(k) == k \in DOMAIN KEY2IDX

\* The coefficient tables, in insertion order, rounded to 1/CoefScale.
RACE_COEFFS == << <<"Speed", 28>>, <<"SlipStreamSpd", 6>>,
                  <<"StartBoost", 4>>, <<"SlowDownSpd", 1>> >>
COIN_COEFFS == << <<"CoinBoostTime", 24>>, <<"StartCoins", 8>>,
                  <<"CoinBoostSpd", 4>>, <<"MaxCoins", -4>> >>
DRIFT_COEFFS == << <<"AirDriftTime", 25>>, <<"Steer", 3>>, <<"DriftSteer", 2>> >>
COMBAT_COEFFS == << <<"UltCharge", 18>>, <<"SlipStreamRadius", 7>>, <<"Daze", -5>> >>

\* score_maps of compute_main_scores
ScoreMap(k) ==
    CASE k = "race" -> RACE_COEFFS
      [] k = "coin" -> COIN_COEFFS
      [] k = "drift" -> DRIFT_COEFFS
      [] k = "combat" -> COMBAT_COEFFS

\* ------------------------------------------------------------------------
\* The catalog (PARTS_DATABASE): category -> ordered list of parts, each a
\* name and a sparse stat map.  A bounded stand-in for the game's database;
\* E1, X1, S1, G1, T1, T2, T3 are the parts of the spec's Speed scenario.
\* ------------------------------------------------------------------------
PARTS_DATABASE ==
    [ ENGINE |-> << [name |-> "E1", stats |-> [Speed |-> 1]],
                    [name |-> "E2", stats |-> [Speed |-> 2, MaxCoins |-> 1]],
                    [name |-> "E3", stats |-> [Steer |-> 1, SlowAreaPenalty |-> 5]] >>,
      EXHAUST |-> << [name |-> "X1", stats |-> [Speed |-> 0]],
                     [name |-> "X2", stats |-> [Speed |-> 1, Daze |-> 1]] >>,
      SUSPENSION |-> << [name |-> "S1", stats |-> [Speed |-> 0]],
                        [name |-> "S2", stats |-> [MaxCoins |-> -1]] >>,
      GEARBOX |-> << [name |-> "G1", stats |-> [Speed |-> 0]],
                     [name |-> "G2", stats |-> [Speed |-> 1, Steer |-> -1]] >>,
      TRINKET |-> << [name |-> "T0", stats |-> [Speed |-> 2]],
                     [name |-> "T1", stats |-> [Speed |-> 0]],
                     [name |-> "T2", stats |-> [Speed |-> 0]],
                     [name |-> "T3", stats |-> [Speed |-> 1]] >> ]

\* ------------------------------------------------------------------------
\* Catalog accessor
\* ------------------------------------------------------------------------
\* df_from_category(category, stat_keys): one row per part, every stat key
\* present, absent keys 0.0; the row's stats are kept as the vector
\* df[RAW_STAT_KEYS].to_numpy() reads (position j holds RAW_STAT_KEYS[j]).
df_from_category(category) ==
    LET items == IF category \in DOMAIN PARTS_DATABASE
                 THEN PARTS_DATABASE[category] ELSE << >>
    IN  [ r \in 1..Len(items) |->
            [ name |-> items[r].name,
              vec |-> [ j \in 1..NKeys |->
                          IF RAW_STAT_KEYS[j] \in DOMAIN items[r].stats
                          THEN items[r].stats[RAW_STAT_KEYS[j]] ELSE 0 ] ] ]

\* out = df[df["name"].isin(set(names))].reset_index(drop=True)
IsIn(row, names) == row.name \in names
FilterRows(table, names) == SelectSeq(table, LAMBDA row : IsIn(row, names))

\* _filter(df, names, cat) of optimise_builds, before its emptiness test
dfSel(cat) == FilterRows(df_from_category(cat), inventory[cat])

\* ------------------------------------------------------------------------
\* numpy helpers, by what they compute (0-based values, At reads position i)
\* ------------------------------------------------------------------------
At(arr, i) == arr[i + 1]
Arange(n) == [ j \in 1..n |-> j - 1 ]
\* np.repeat(a, n): every element n times in a row
Repeat(a, n) == [ j \in 1..(Len(a) * n) |-> a[((j - 1) \div n) + 1] ]
\* np.tile(a, n): the whole array n times
Tile(a, n) == [ j \in 1..(Len(a) * n) |-> a[((j - 1) % Len(a)) + 1] ]
VecAdd(a, b) == [ j \in 1..NKeys |-> a[j] + b[j] ]
ZeroVec == [ j \in 1..NKeys |-> 0 ]

\* np.triu_indices(n, k): the pairs (a, b), 0 <= a, a + k <= b < n, row by row
RECURSIVE TriuFrom(_, _, _)
TriuFrom(a, n, k) ==
    IF a >= n THEN << >>
    ELSE [ j \in 1..Max(0, n - a - k) |-> << a, a + k + j - 1 >> ] \o TriuFrom(a + 1, n, k)
TriuK == 1
\* triu_indices with the diagonal included
triu_indices_diagonal(n) == TriuFrom(0, n, 0)

triu_indices(n) == TriuFrom(0, n, TriuK)

\* ------------------------------------------------------------------------
\* obk/scoring.py: compute_main_scores, for one row of totals
\* ------------------------------------------------------------------------
RECURSIVE LinScore(_, _)
LinScore(coeffs, total) ==
    IF coeffs = << >> THEN 0
    ELSE LET stat == Head(coeffs)[1]
             coeff == Head(coeffs)[2]
         IN  (IF KnownKey(stat) THEN coeff * At(total, KEY2IDX[stat]) ELSE 0)
             + LinScore(Tail(coeffs), total)

compute_main_scores(total) ==
    [ race |-> LinScore(RACE_COEFFS, total),
      coin |-> LinScore(COIN_COEFFS, total),
      drift |-> LinScore(DRIFT_COEFFS, total),
      combat |-> LinScore(COMBAT_COEFFS, total) ]

\* ------------------------------------------------------------------------
\* obk/optimiser.py: the search space of optimise_builds
\* ------------------------------------------------------------------------
E == Len(dfE)
X == Len(dfX)
S == Len(dfS)
G == Len(dfG)
T == Len(dfT)

idx_e == Repeat(Arange(E), X * S * G)
idx_x == Tile(Repeat(Arange(X), S * G), E)
idx_s == Tile(Repeat(Arange(S), G), E * X)
idx_g == Tile(Arange(G), E * X * S)

\* base = E_arr[idx_e] + X_arr[idx_x] + S_arr[idx_s] + G_arr[idx_g]
BaseArray ==
    [ j \in 1..Len(idx_e) |->
        VecAdd(VecAdd(At(dfE, idx_e[j]).vec, At(dfX, idx_x[j]).vec),
               VecAdd(At(dfS, idx_s[j]).vec, At(dfG, idx_g[j]).vec)) ]
nbase == Len(base)

\* pair_stats = T_arr[t1] + T_arr[t2]
PairStats(a, b) == [ j \in 1..Len(a) |-> VecAdd(At(dfT, a[j]).vec, At(dfT, b[j]).vec) ]
npairs == Len(pair_stats)

\* totals = base + pair_stats[p_i], row i
\* totals that adds the stats of the following trinket pair
totalsNextPair(p, i) == VecAdd(At(base, i), At(pair_stats, (p + 1) % npairs))

totals(p, i) == VecAdd(At(base, i), At(pair_stats, p))

\* ------------------------------------------------------------------------
\* obk/ranges.py.  Returned bounds are in 1/RangeScale of the quantity's unit.
\* ------------------------------------------------------------------------
ColValues(table, k) == { table[r].vec[KEY2IDX[k] + 1] : r \in 1..Len(table) }

\* _minmax(df, keys): (mn[k], mx[k]), 0.0 for an empty table or an unknown column
ColMin(table, k) == IF table = << >> \/ ~KnownKey(k) THEN 0 ELSE SetMin(ColValues(table, k))
ColMax(table, k) == IF table = << >> \/ ~KnownKey(k) THEN 0 ELSE SetMax(ColValues(table, k))

\* _trinket_pair_minmax(dfT, keys): min / max over the rows of arr[t1] + arr[t2];
\* numpy raises ValueError on the min of a zero-size array (no pair).
PairValues(table, k) ==
    LET tri == triu_indices(Len(table))
    IN  { At(table, tri[j][1]).vec[KEY2IDX[k] + 1] + At(table, tri[j][2]).vec[KEY2IDX[k] + 1]
            : j \in 1..Len(tri) }
trinket_pair_minmax_raises(table) == Len(triu_indices(Len(table))) = 0
PairMin(table, k) == SetMin(PairValues(table, k))
PairMax(table, k) == SetMax(PairValues(table, k))

\* total_min[k], total_max[k] of both estimators
total_min(k) == ColMin(dfE, k) + ColMin(dfX, k) + ColMin(dfS, k) + ColMin(dfG, k) + PairMin(dfT, k)
total_max(k) == ColMax(dfE, k) + ColMax(dfX, k) + ColMax(dfS, k) + ColMax(dfG, k) + PairMax(dfT, k)

\* LinLo that takes the min bound whatever the sign of the coefficient
RECURSIVE LinLoSameSign(_)
LinLoSameSign(coeffs) ==
    IF coeffs = << >> THEN 0
    ELSE LET k == Head(coeffs)[1]
             c == Head(coeffs)[2]
         IN  c * total_min(k) + LinLoSameSign(Tail(coeffs))

\* _lin_minmax(total_min, total_max, coeffs): (lo, hi)
RECURSIVE LinLo(_)
LinLo(coeffs) ==
    IF coeffs = << >> THEN 0
    ELSE LET k == Head(coeffs)[1]
             c == Head(coeffs)[2]
         IN  (IF c >= 0 THEN c * total_min(k) ELSE c * total_max(k)) + LinLo(Tail(coeffs))
RECURSIVE LinHi(_)
LinHi(coeffs) ==
    IF coeffs = << >> THEN 0
    ELSE LET k == Head(coeffs)[1]
             c == Head(coeffs)[2]
         IN  (IF c >= 0 THEN c * total_max(k) ELSE c * total_min(k)) + LinHi(Tail(coeffs))
lin_minmax(coeffs) == << LinLo(coeffs), LinHi(coeffs) >>

\* Padded without the floor of one unit
PaddedBySpanOnly(lo, hi, one) ==
    LET pad == IF hi > lo THEN ((hi - lo) * RangeScale) \div 20 ELSE 0
    IN  << RangeScale * lo - pad, RangeScale * hi + pad >>

\* pad = max(1.0, 0.05 * (hi - lo) if hi > lo else 1.0); (lo - pad, hi + pad).
\* one is the value 1.0 (main scores) or 0.1 (raw stats) in 1/RangeScale units;
\* 0.05 * (hi - lo) is (hi - lo) * RangeScale / 20 there.
Padded(lo, hi, one) ==
    LET pad == Max(one, IF hi > lo THEN ((hi - lo) * RangeScale) \div 20 ELSE one)
    IN  << RangeScale * lo - pad, RangeScale * hi + pad >>

estimate_main_score_ranges ==
    [ k \in Range(MAIN_SCORES) |->
        Padded(lin_minmax(ScoreMap(k))[1], lin_minmax(ScoreMap(k))[2], RangeScale * CoefScale) ]

estimate_raw_stat_ranges(keys) ==
    [ k \in keys |-> Padded(total_min(k), total_max(k), RangeScale \div 10) ]

\* ------------------------------------------------------------------------
\* obk/optimiser.py: constraint mask and objective of one row
\* ------------------------------------------------------------------------
PART_COLS == << "ENGINE", "EXHAUST", "SUSPENSION", "GEARBOX", "TRINKET_1", "TRINKET_2" >>
COLS == << "objective", "race", "coin", "drift", "combat",
           "ENGINE", "EXHAUST", "SUSPENSION", "GEARBOX", "TRINKET_1", "TRINKET_2" >>
MINIMISE_RAW == { "MaxCoins", "Daze" }

norm_on == config.normalize_objective

\* (lo, hi) range test of the mask: a bound that is None is not applied
\* InRange without the upper-bound test
InRangeLowerOnly(v, bounds) ==
    ~IsNone(bounds[1]) => v >= Val(bounds[1])

InRange(v, bounds) ==
    /\ (~IsNone(bounds[1]) => v >= Val(bounds[1]))
    /\ (~IsNone(bounds[2]) => v <= Val(bounds[2]))

\* Mask without the loop over constraints_main
MaskRawOnly(sc, tot) ==
    \A raw \in Keys(Val(config.constraints_raw)) :
       KnownKey(raw) => InRange(At(tot, KEY2IDX[raw]), Get(Val(config.constraints_raw), raw))

\* Mask that fails a row on a raw constraint whose key is not canonical
MaskStrictKeys(sc, tot) ==
    /\ \A k \in Keys(Val(config.constraints_main)) :
          InRange(sc[k], Get(Val(config.constraints_main), k))
    /\ \A raw \in Keys(Val(config.constraints_raw)) :
          KnownKey(raw) /\ InRange(At(tot, KEY2IDX[raw]), Get(Val(config.constraints_raw), raw))

\* mask[i] for the row with main scores sc and stat totals tot
Mask(sc, tot) ==
    /\ \A k \in Keys(Val(config.constraints_main)) :
          InRange(sc[k], Get(Val(config.constraints_main), k))
    /\ \A raw \in Keys(Val(config.constraints_raw)) :
          KnownKey(raw) => InRange(At(tot, KEY2IDX[raw]), Get(Val(config.constraints_raw), raw))

\* _minmax_norm(x, lo, hi) as the fraction << numerator, denominator >>
minmax_norm(x, lo, hi) ==
    LET denom == hi - lo
    IN  IF denom <= 0 THEN << 0, 1 >>
        ELSE << Max(0, Min(denom, x - lo)), denom >>

\* The terms the two weight loops do not skip
ActiveMain == { k \in Keys(config.weights_main) : Get(config.weights_main, k) # 0 }
ActiveRaw == { k \in Keys(Val(config.weights_raw)) :
                 KnownKey(k) /\ Get(Val(config.weights_raw), k) # 0 }

\* Denominator of the objective numerators of this run: the least common
\* multiple of the denominators of the normalised terms (1 without normalisation)
RangeDen(rng) == IF rng[2] - rng[1] <= 0 THEN 1 ELSE rng[2] - rng[1]
RECURSIVE LcmOver(_, _)
LcmOver(keys, ranges) ==
    IF keys = {} THEN 1
    ELSE LET k == CHOOSE k \in keys : TRUE
         IN  Lcm(RangeDen(ranges[k]), LcmOver(keys \ {k}, ranges))
ObjDen ==
    IF norm_on THEN Lcm(LcmOver(ActiveMain, main_ranges), LcmOver(ActiveRaw, raw_ranges))
    ELSE 1

\* MainTerm that subtracts the weighted score
MainTermSubtracted(k, sc, den) ==
    LET w == Get(config.weights_main, k)
    IN  IF norm_on
        THEN LET n == minmax_norm(RangeScale * sc[k], main_ranges[k][1], main_ranges[k][2])
             IN  0 - w * n[1] * (den \div n[2])
        ELSE 0 - w * sc[k]

\* w * x of the main-score loop, as a numerator over WeightScale * ObjDen
\* (over WeightScale * CoefScale without normalisation)
MainTerm(k, sc, den) ==
    LET w == Get(config.weights_main, k)
    IN  IF norm_on
        THEN LET n == minmax_norm(RangeScale * sc[k], main_ranges[k][1], main_ranges[k][2])
             IN  w * n[1] * (den \div n[2])
        ELSE w * sc[k]

\* RawTerm that treats the stats of MINIMISE_RAW like every other stat
RawTermNoFlip(raw, tot, den) ==
    LET w == Get(Val(config.weights_raw), raw)
        x == At(tot, KEY2IDX[raw])
    IN  IF norm_on
        THEN LET n == minmax_norm(RangeScale * x, raw_ranges[raw][1], raw_ranges[raw][2])
             IN  w * n[1] * (den \div n[2])
        ELSE w * CoefScale * x

\* w * x of the raw-stat loop, 1 - x or -x for the stats of MINIMISE_RAW
RawTerm(raw, tot, den) ==
    LET w == Get(Val(config.weights_raw), raw)
        x == At(tot, KEY2IDX[raw])
    IN  IF norm_on
        THEN LET n == minmax_norm(RangeScale * x, raw_ranges[raw][1], raw_ranges[raw][2])
                 num == IF raw \in MINIMISE_RAW THEN n[2] - n[1] ELSE n[1]
             IN  w * num * (den \div n[2])
        ELSE w * CoefScale * (IF raw \in MINIMISE_RAW THEN -x ELSE x)

RECURSIVE SumMain(_, _, _)
SumMain(keys, sc, den) ==
    IF keys = {} THEN 0
    ELSE LET k == CHOOSE k \in keys : TRUE
         IN  MainTerm(k, sc, den) + SumMain(keys \ {k}, sc, den)
RECURSIVE SumRaw(_, _, _)
SumRaw(keys, tot, den) ==
    IF keys = {} THEN 0
    ELSE LET k == CHOOSE k \in keys : TRUE
         IN  RawTerm(k, tot, den) + SumRaw(keys \ {k}, tot, den)

\* obj[i] before masking
Objective(sc, tot, den) == SumMain(ActiveMain, sc, den) + SumRaw(ActiveRaw, tot, den)

\* Extended numbers: obj[~mask] = -np.inf
NegInf == [fin |-> FALSE, v |-> 0]
Fin(v) == [fin |-> TRUE, v |-> v]
ObjGt(a, b) == a.fin /\ (~b.fin \/ a.v > b.v)
ObjGe(a, b) == ~b.fin \/ (a.fin /\ a.v >= b.v)
Masked(mask, v) == IF mask THEN Fin(v) ELSE NegInf

\* ------------------------------------------------------------------------
\* Sorting.  sort_values(ascending=False) and argsort()[::-1] promise no order
\* among equal keys; tie fixes one for the whole run: "first" keeps rows of
\* equal objective in their input order, "last" reverses them.
\* ------------------------------------------------------------------------
\* GoesBefore for an ascending sort
GoesBeforeAscending(x, y) ==
    \/ ObjGt(y.objective, x.objective)
    \/ (~ObjGt(x.objective, y.objective) /\ tie = "first")

GoesBefore(x, y) ==
    \/ ObjGt(x.objective, y.objective)
    \/ (~ObjGt(y.objective, x.objective) /\ tie = "first")

RECURSIVE InsertRow(_, _)
InsertRow(x, sorted) ==
    IF sorted = << >> THEN << x >>
    ELSE IF GoesBefore(x, Head(sorted)) THEN << x >> \o sorted
    ELSE << Head(sorted) >> \o InsertRow(x, Tail(sorted))

RECURSIVE SortDesc(_)
SortDesc(rows) ==
    IF rows = << >> THEN << >> ELSE InsertRow(Head(rows), SortDesc(Tail(rows)))

\* ------------------------------------------------------------------------
\* One iteration of the trinket-pair loop
\* ------------------------------------------------------------------------
\* Row i of this pair: its mask, its objective (-inf when masked) and scores
EvalRow(p, i, den) ==
    LET tot == totals(p, i)
        sc == compute_main_scores(tot)
        mask == Mask(sc, tot)
    IN  [ i |-> i, mask |-> mask, objective |-> Masked(mask, Objective(sc, tot, den)),
          race |-> sc.race, coin |-> sc.coin, drift |-> sc.drift, combat |-> sc.combat ]

RECURSIVE EvalFrom(_, _, _)
EvalFrom(p, i, den) ==
    IF i >= nbase THEN << >> ELSE << EvalRow(p, i, den) >> \o EvalFrom(p, i + 1, den)

\* kkeep that keeps a single candidate per trinket pair
kkeepOne(top_n, nmask) == Min(1, nmask)

\* kkeep = min(max(top_n * 20, top_n), int(mask.sum()))
kkeep(top_n, nmask) == Min(Max(top_n * 20, top_n), nmask)

\* cand = np.argpartition(obj, -kkeep)[-kkeep:]; cand = cand[np.argsort(obj[cand])[::-1]]:
\* the kkeep rows of largest objective, in descending order
cand(evals, kk) == SubSeq(SortDesc(evals), 1, Min(kk, Len(evals)))

\* The tuple appended to results for row ev.i of pair p
ResultRow(p, ev) ==
    [ objective |-> ev.objective,
      race |-> ev.race, coin |-> ev.coin, drift |-> ev.drift, combat |-> ev.combat,
      ENGINE |-> At(dfE, At(idx_e, ev.i)).name,
      EXHAUST |-> At(dfX, At(idx_x, ev.i)).name,
      SUSPENSION |-> At(dfS, At(idx_s, ev.i)).name,
      GEARBOX |-> At(dfG, At(idx_g, ev.i)).name,
      TRINKET_1 |-> At(dfT, At(t1, p)).name,
      TRINKET_2 |-> At(dfT, At(t2, p)).name ]

\* The rows pair p adds to results (none when no row passes the mask)
PairRows(p) ==
    LET evals == EvalFrom(p, 0, ObjDen)
        nmask == Cardinality({ r \in 1..Len(evals) : evals[r].mask })
        chosen == cand(evals, kkeep(config.top_n, nmask))
    IN  IF nmask = 0 THEN << >>
        ELSE [ r \in 1..Len(chosen) |-> ResultRow(p, chosen[r]) ]

\* ------------------------------------------------------------------------
\* Aggregation: sort_values("objective").drop_duplicates(subset=PART_COLS)
\* ------------------------------------------------------------------------
Parts(row) == [ c \in 1..Len(PART_COLS) |-> row[PART_COLS[c]] ]
SameParts(a, b) == \A c \in 1..Len(PART_COLS) : a[PART_COLS[c]] = b[PART_COLS[c]]

RECURSIVE DropFrom(_, _)
DropFrom(rows, kept) ==
    IF rows = << >> THEN kept
    ELSE IF \E r \in 1..Len(kept) : SameParts(kept[r], Head(rows))
         THEN DropFrom(Tail(rows), kept)
         ELSE DropFrom(Tail(rows), Append(kept, Head(rows)))
drop_duplicates(rows) == DropFrom(rows, << >>)

\* head that stops one row short
headShort(rows, n) == SubSeq(rows, 1, Min(n, Len(rows)) - 1)

head(rows, n) == SubSeq(rows, 1, Min(n, Len(rows)))

NoTable == [columns |-> << >>, rows |-> << >>]
Table(rows) == [columns |-> COLS, rows |-> rows]

\* ------------------------------------------------------------------------
\* _diversify_by_parts
\* ------------------------------------------------------------------------
\* _hamming_parts(row_a, row_b): number of part columns that differ
hamming_parts(row_a, row_b) ==
    Cardinality({ c \in 1..Len(PART_COLS) : row_a[PART_COLS[c]] # row_b[PART_COLS[c]] })

CountGet(cnt, col, v) == IF v \in DOMAIN cnt[col] THEN cnt[col][v] ELSE 0

\* ok_quota(i)
ok_quota(i, cnt) ==
    \/ IsNone(config.per_part_max)
    \/ Val(config.per_part_max) = EmptyDict
    \/ \A col \in Keys(Val(config.per_part_max)) :
          LET lim == Get(Val(config.per_part_max), col)
          IN  (col \in Range(PART_COLS) /\ ~IsNone(lim))
                => ~(CountGet(cnt, col, At(df, i)[col]) >= Val(lim))

\* add(i)
RECURSIVE AddCounts(_, _, _)
AddCounts(cnt, row, c) ==
    IF c > Len(PART_COLS) THEN cnt
    ELSE LET col == PART_COLS[c]
             v == row[col]
         IN  AddCounts([cnt EXCEPT ![col] = (v :> (CountGet(cnt, col, v) + 1)) @@ @], row, c + 1)
add(i, st) ==
    [ st EXCEPT !.selected = Append(@, i), !.counts = AddCounts(@, At(df, i), 1) ]

InSelected(i, sel) == \E r \in 1..Len(sel) : sel[r] = i

\* DiverseEnough that tolerates one slot less than the threshold
DiverseEnoughLoose(i, sel, threshold) ==
    \A r \in 1..Len(sel) : hamming_parts(At(df, i), At(df, sel[r])) >= threshold - 1

\* The test of line 81: row i differs enough from every selected row
DiverseEnough(i, sel, threshold) ==
    \A r \in 1..Len(sel) : hamming_parts(At(df, i), At(df, sel[r])) >= threshold

\* The for loop of one pass of the while loop, from candidate i on
RECURSIVE ScanFrom(_, _)
ScanFrom(i, st) ==
    IF i >= Len(df) THEN st
    ELSE IF InSelected(i, st.selected) \/ ~ok_quota(i, st.counts) THEN ScanFrom(i + 1, st)
    ELSE IF DiverseEnough(i, st.selected, cur_min)
         THEN LET st2 == [ add(i, st) EXCEPT !.picked = TRUE ]
              IN  IF Len(st2.selected) >= config.top_n THEN st2 ELSE ScanFrom(i + 1, st2)
         ELSE ScanFrom(i + 1, st)

\* FillFrom without the quota test
RECURSIVE FillIgnoringQuota(_, _)
FillIgnoringQuota(i, st) ==
    IF i >= Len(df) THEN st
    ELSE IF InSelected(i, st.selected) THEN FillIgnoringQuota(i + 1, st)
    ELSE LET st2 == add(i, st)
         IN  IF Len(st2.selected) >= config.top_n THEN st2 ELSE FillIgnoringQuota(i + 1, st2)

\* The fill loop of the else branch, from candidate i on
RECURSIVE FillFrom(_, _)
FillFrom(i, st) ==
    IF i >= Len(df) THEN st
    ELSE IF InSelected(i, st.selected) \/ ~ok_quota(i, st.counts) THEN FillFrom(i + 1, st)
    ELSE LET st2 == add(i, st)
         IN  IF Len(st2.selected) >= config.top_n THEN st2 ELSE FillFrom(i + 1, st2)

\* Loc that returns the selected rows last first
LocReversed(rows, sel) == [ r \in 1..Len(sel) |-> At(rows, sel[Len(sel) + 1 - r]) ]

\* df.loc[selected].reset_index(drop=True)
Loc(rows, sel) == [ r \in 1..Len(sel) |-> At(rows, sel[r]) ]

EmptyCounts == [ c \in Range(PART_COLS) |-> << >> ]
DivState == [ selected |-> selected, counts |-> counts, picked |-> FALSE ]

\* ------------------------------------------------------------------------
\* Inputs of a run
\* ------------------------------------------------------------------------
Inv(e, x, s, g, t) ==
    [ ENGINE |-> e, EXHAUST |-> x, SUSPENSION |-> s, GEARBOX |-> g, TRINKET |-> t ]

\* Gear selections with a part in every category: 1, 8 and 24 base rows
SmallGear == << {"E1"}, {"X1"}, {"S1"}, {"G1"} >>
MediumGear == << {"E1", "E2"}, {"X1", "X2"}, {"S1"}, {"G1", "G2"} >>
GearSets == { SmallGear, MediumGear }
BigGearSets ==
    { << {"E1", "E2", "E3"}, {"X1", "X2"}, {"S1", "S2"}, {"G1", "G2"} >> }
\* Gear selections that leave a category without a catalog part
BadGearSets ==
    { << {}, {"X1"}, {"S1"}, {"G1"} >>,
      << {"Ghost"}, {"X1"}, {"S1"}, {"G1"} >>,
      << {"E1"}, {}, {"S1"}, {"G1"} >>,
      << {"E1"}, {"X1"}, {}, {"G1"} >>,
      << {"E1"}, {"X1"}, {"S1"}, {} >>,
      << {"E1"}, {}, {"S1"}, {} >> }

TrinketSets == { {"T1", "T2", "T3"}, {"T0", "T1", "T3"}, {"T0", "T1", "T2", "T3"} }
BadTrinketSets == { {}, {"T3"}, {"Ghost", "T2"} }

Inventories ==
    { Inv(g[1], g[2], g[3], g[4], t) : g \in {SmallGear}, t \in { {"T1", "T2", "T3"}, {"T0", "T1", "T3"} } }
    \cup { Inv(g[1], g[2], g[3], g[4], t) :
             g \in {MediumGear}, t \in { {"T0", "T1", "T3"}, {"T0", "T1", "T2", "T3"} } }
BigInventories ==
    { Inv(g[1], g[2], g[3], g[4], t) : g \in BigGearSets, t \in { {"T1", "T2", "T3"} } }
BadInventories ==
    { Inv(g[1], g[2], g[3], g[4], t) : g \in BadGearSets, t \in TrinketSets \cup BadTrinketSets }
    \cup { Inv(g[1], g[2], g[3], g[4], t) : g \in GearSets \cup BigGearSets, t \in BadTrinketSets }

\* (weights_main, weights_raw); weights are in 1/WeightScale: 2 is 1.0, 5 is 2.5
Objectives ==
    { << EmptyDict, Some(EmptyDict) >>,
      << << <<"race", 2>> >>, None >>,
      << << <<"race", 2>>, <<"coin", 5>>, <<"drift", 0>> >>,
         Some(<< <<"MaxCoins", 2>>, <<"Bogus", 2>> >>) >> }

\* (constraints_main, constraints_raw); main bounds are in 1/CoefScale
Constraints ==
    { << Some(EmptyDict), Some(EmptyDict) >>,
      << Some(<< <<"race", << Some(56), None >> >> >>), None >>,
      << None, Some(<< <<"Speed", << Some(2), Some(3) >> >>,
                       <<"Bogus", << Some(9), None >> >> >>) >>,
      << Some(<< <<"race", << Some(1000), None >> >> >>), Some(EmptyDict) >>,
      << Some(<< <<"race", << Some(28), Some(112) >> >>,
                 <<"coin", << None, Some(0) >> >> >>),
         Some(<< <<"MaxCoins", << Some(0), None >> >> >>) >> }

\* (diverse, min_diff_parts, per_part_max)
Diversities ==
    { << FALSE, 2, None >>, << TRUE, 2, None >>, << TRUE, 3, Some(EmptyDict) >>,
      << TRUE, 2, Some(<< <<"TRINKET_2", Some(1)>>, <<"GEARBOX", None>>,
                          <<"Bogus", Some(0)>> >>) >> }
    \cup { << TRUE, 2, Some(<< <<"ENGINE", Some(lim)>> >>) >> : lim \in 0..MaxLim }

Configs ==
    { [ top_n |-> n, weights_main |-> o[1], weights_raw |-> o[2],
        constraints_main |-> c[1], constraints_raw |-> c[2],
        normalize_objective |-> nrm,
        diverse |-> d[1], min_diff_parts |-> d[2], per_part_max |-> d[3] ] :
      n \in 1..MaxTopN, o \in Objectives, c \in Constraints, nrm \in BOOLEAN,
      d \in Diversities }

\* The configs tried on the 24-row gear selection (where kkeep is below the
\* number of base rows) and on the selections that fail validation
BigConfigs == { c \in Configs : c.top_n = 1 /\ IsNone(c.per_part_max) }
BadConfigs == { c \in BigConfigs : ~c.diverse /\ c.constraints_main = Some(EmptyDict) }

NoError == [type |-> "none", msg |-> "", cat |-> ""]

\* The state at the entry of optimise_builds: no local is bound yet
FreshLocals ==
    /\ err = NoError
    /\ pair_work = FALSE
    /\ dfE = << >> /\ dfX = << >> /\ dfS = << >> /\ dfG = << >> /\ dfT = << >>
    /\ main_ranges = << >> /\ raw_ranges = << >>
    /\ base = << >> /\ t1 = << >> /\ t2 = << >> /\ pair_stats = << >>
    /\ p_i = 0
    /\ results = << >>
    /\ df = << >>
    /\ selected = << >>
    /\ counts = EmptyCounts
    /\ cur_min = 0
    /\ picked = FALSE
    /\ result = NoTable

FreshCall == pc = "start" /\ FreshLocals

\* hist of a first call with config object cfg
FirstCall(cfg) == [ given |-> cfg, prev |-> None ]

\* session while no app is running
NoSession == [ widgets |-> << >>, run |-> FALSE, results_df |-> None, last_run_sig |-> None ]

Init ==
    /\ \/ inventory \in Inventories /\ config \in Configs
       \/ inventory \in BigInventories /\ config \in BigConfigs
       \/ inventory \in BadInventories /\ config \in BadConfigs
    /\ tie \in {"first", "last"}
    /\ FreshCall
    /\ hist = FirstCall(config)
    /\ session = NoSession

\* ------------------------------------------------------------------------
\* optimise_builds, step by step
\* ------------------------------------------------------------------------
DEFAULT_WEIGHTS_MAIN == << <<"race", 2>>, <<"coin", 2>>, <<"drift", 2>>, <<"combat", 2>> >>

\* FillDefaults that also takes one off top_n in the caller's object
FillDefaultsShrinking(cfg) ==
    [ cfg EXCEPT
        !.top_n = Max(1, @ - 1),
        !.weights_main = IF @ = EmptyDict THEN DEFAULT_WEIGHTS_MAIN ELSE @,
        !.weights_raw = IF IsNone(@) THEN Some(EmptyDict) ELSE @,
        !.constraints_main = IF IsNone(@) THEN Some(EmptyDict) ELSE @,
        !.constraints_raw = IF IsNone(@) THEN Some(EmptyDict) ELSE @ ]

\* Lines 106-113: the defaults written into the config object
FillDefaults(cfg) ==
    [ cfg EXCEPT
        !.weights_main = IF @ = EmptyDict THEN DEFAULT_WEIGHTS_MAIN ELSE @,
        !.weights_raw = IF IsNone(@) THEN Some(EmptyDict) ELSE @,
        !.constraints_main = IF IsNone(@) THEN Some(EmptyDict) ELSE @,
        !.constraints_raw = IF IsNone(@) THEN Some(EmptyDict) ELSE @ ]

\* EmptyCats that filters the four gear categories only
EmptyCatsGearOnly == SelectSeq(SubSeq(CATEGORIES, 1, 4), LAMBDA cat : dfSel(cat) = << >>)

\* The categories whose _filter call would raise, in call order
EmptyCats == SelectSeq(CATEGORIES, LAMBDA cat : dfSel(cat) = << >>)
FilterError(cats) == [type |-> "ValueError", msg |-> "No selected parts in", cat |-> Head(cats)]

\* Lines 106-132: defaults, the five tables, _filter
Load ==
    /\ pc = "start"
    /\ config' = FillDefaults(config)
    /\ IF EmptyCats # << >>
       THEN /\ err' = FilterError(EmptyCats)
            /\ pc' = "error"
            /\ UNCHANGED << dfE, dfX, dfS, dfG, dfT >>
       ELSE /\ dfE' = dfSel("ENGINE") /\ dfX' = dfSel("EXHAUST") /\ dfS' = dfSel("SUSPENSION")
            /\ dfG' = dfSel("GEARBOX") /\ dfT' = dfSel("TRINKET")
            /\ pc' = "ranges"
            /\ err' = err
    /\ UNCHANGED << hist, session >>
    /\ UNCHANGED << inventory, tie, pair_work, main_ranges, raw_ranges, base, t1, t2,
                    pair_stats, p_i, results, df, selected, counts, cur_min, picked, result >>

\* raw_keys_needed = [k for k in weights_raw.keys() if k in KEY2IDX]
raw_keys_needed == { k \in Keys(Val(config.weights_raw)) : KnownKey(k) }

ZeroSizeError ==
    [type |-> "ValueError", msg |-> "zero-size array to reduction operation minimum", cat |-> ""]

\* Lines 143-148: the ranges of the normalised objective.  Both estimators
\* start with _trinket_pair_minmax, which works on the trinket pairs.
EstimateRanges ==
    /\ pc = "ranges"
    /\ IF norm_on
       THEN /\ pair_work' = TRUE
            /\ IF trinket_pair_minmax_raises(dfT)
               THEN /\ err' = ZeroSizeError
                    /\ pc' = "error"
                    /\ UNCHANGED << main_ranges, raw_ranges >>
               ELSE /\ main_ranges' = estimate_main_score_ranges
                    /\ raw_ranges' = IF raw_keys_needed # {}
                                     THEN estimate_raw_stat_ranges(raw_keys_needed)
                                     ELSE << >>
                    /\ pc' = "check"
                    /\ err' = err
       ELSE /\ pc' = "check"
            /\ UNCHANGED << pair_work, main_ranges, raw_ranges, err >>
    /\ UNCHANGED << hist, session >>
    /\ UNCHANGED << inventory, config, tie, dfE, dfX, dfS, dfG, dfT, base, t1, t2,
                    pair_stats, p_i, results, df, selected, counts, cur_min, picked, result >>

TrinketError ==
    [type |-> "ValueError", msg |-> "Select at least 2 trinkets", cat |-> ""]

Column(pairs, c) == [ j \in 1..Len(pairs) |-> pairs[j][c] ]

\* Lines 150-173: the trinket check, the base rows, the trinket pairs
Prepare ==
    /\ pc = "check"
    /\ IF Len(dfT) < 2
       THEN /\ err' = TrinketError
            /\ pc' = "error"
            /\ UNCHANGED << pair_work, base, t1, t2, pair_stats >>
       ELSE /\ base' = BaseArray
            /\ t1' = Column(triu_indices(T), 1)
            /\ t2' = Column(triu_indices(T), 2)
            /\ pair_stats' = PairStats(t1', t2')
            /\ pair_work' = TRUE
            /\ pc' = "loop"
            /\ err' = err
    /\ p_i' = 0
    /\ results' = << >>
    /\ UNCHANGED << hist, session >>
    /\ UNCHANGED << inventory, config, tie, dfE, dfX, dfS, dfG, dfT, main_ranges,
                    raw_ranges, df, selected, counts, cur_min, picked, result >>

\* Lines 175-250: one iteration of the loop over the trinket pairs
PairIter ==
    /\ pc = "loop"
    /\ p_i < npairs
    /\ results' = results \o PairRows(p_i)
    /\ p_i' = p_i + 1
    /\ UNCHANGED << hist, session >>
    /\ UNCHANGED << inventory, config, tie, pc, err, pair_work, dfE, dfX, dfS, dfG, dfT,
                    main_ranges, raw_ranges, base, t1, t2, pair_stats, df, selected,
                    counts, cur_min, picked, result >>

\* Lines 252-275: the empty table, or sort and drop_duplicates, then either
\* head(top_n) or the diversity pass
Aggregate ==
    /\ pc = "loop"
    /\ p_i >= npairs
    /\ IF results = << >>
       THEN /\ result' = Table(<< >>)
            /\ pc' = "done"
            /\ df' = df
       ELSE /\ df' = drop_duplicates(SortDesc(results))
            /\ IF config.diverse
               THEN /\ pc' = "diversify"
                    /\ result' = result
               ELSE /\ result' = Table(head(df', config.top_n))
                    /\ pc' = "done"
    /\ UNCHANGED << hist, session >>
    /\ UNCHANGED << inventory, config, tie, err, pair_work, dfE, dfX, dfS, dfG, dfT,
                    main_ranges, raw_ranges, base, t1, t2, pair_stats, p_i, results,
                    selected, counts, cur_min, picked >>

\* _diversify_by_parts, lines 42-70: sort, add(0), cur_min
DivStart ==
    /\ pc = "diversify"
    /\ IF df = << >>
       THEN /\ result' = Table(df)
            /\ pc' = "done"
            /\ UNCHANGED << df, selected, counts, cur_min >>
       ELSE /\ df' = SortDesc(df)
            /\ selected' = << 0 >>
            /\ counts' = AddCounts(EmptyCounts, At(df', 0), 1)
            /\ cur_min' = config.min_diff_parts
            /\ pc' = "div_loop"
            /\ result' = result
    /\ UNCHANGED << hist, session >>
    /\ UNCHANGED << inventory, config, tie, err, pair_work, dfE, dfX, dfS, dfG, dfT,
                    main_ranges, raw_ranges, base, t1, t2, pair_stats, p_i, results, picked >>

\* The condition of the while loop, line 72
DivMore == Len(selected) < config.top_n /\ Len(selected) < Len(df)

\* Lines 73-85: one scan of the candidates
DivScan ==
    /\ pc = "div_loop"
    /\ DivMore
    /\ LET st == ScanFrom(1, DivState)
       IN  /\ selected' = st.selected
           /\ counts' = st.counts
           /\ picked' = st.picked
           /\ pc' = IF st.picked THEN "div_loop" ELSE "div_stalled"
    /\ UNCHANGED << hist, session >>
    /\ UNCHANGED << inventory, config, tie, err, pair_work, dfE, dfX, dfS, dfG, dfT,
                    main_ranges, raw_ranges, base, t1, t2, pair_stats, p_i, results, df,
                    cur_min, result >>

\* DivRelax that leaves the threshold as it is
DivRelaxForgotten ==
    /\ pc = "div_stalled"
    /\ cur_min > 0
    /\ cur_min' = cur_min
    /\ pc' = "div_loop"
    /\ UNCHANGED << hist, session >>
    /\ UNCHANGED << inventory, config, tie, err, pair_work, dfE, dfX, dfS, dfG, dfT,
                    main_ranges, raw_ranges, base, t1, t2, pair_stats, p_i, results, df,
                    selected, counts, picked, result >>

\* DivRelax that lowers the threshold by two
DivRelaxByTwo ==
    /\ pc = "div_stalled"
    /\ cur_min > 0
    /\ cur_min' = cur_min - 2
    /\ pc' = "div_loop"
    /\ UNCHANGED << hist, session >>
    /\ UNCHANGED << inventory, config, tie, err, pair_work, dfE, dfX, dfS, dfG, dfT,
                    main_ranges, raw_ranges, base, t1, t2, pair_stats, p_i, results, df,
                    selected, counts, picked, result >>

\* Lines 87-89: nothing accepted, relax the threshold
DivRelax ==
    /\ pc = "div_stalled"
    /\ cur_min > 0
    /\ cur_min' = cur_min - 1
    /\ pc' = "div_loop"
    /\ UNCHANGED << hist, session >>
    /\ UNCHANGED << inventory, config, tie, err, pair_work, dfE, dfX, dfS, dfG, dfT,
                    main_ranges, raw_ranges, base, t1, t2, pair_stats, p_i, results, df,
                    selected, counts, picked, result >>

\* Lines 90-100: threshold 0 and nothing accepted, fill by objective and break
DivFill ==
    /\ pc = "div_stalled"
    /\ ~(cur_min > 0)
    /\ LET st == FillFrom(1, DivState)
       IN  /\ selected' = st.selected
           /\ counts' = st.counts
    /\ pc' = "div_break"
    /\ UNCHANGED << hist, session >>
    /\ UNCHANGED << inventory, config, tie, err, pair_work, dfE, dfX, dfS, dfG, dfT,
                    main_ranges, raw_ranges, base, t1, t2, pair_stats, p_i, results, df,
                    cur_min, picked, result >>

\* Line 102: the loop has ended, return df.loc[selected]
DivReturn ==
    /\ \/ pc = "div_break"
       \/ (pc = "div_loop" /\ ~DivMore)
    /\ result' = Table(Loc(df, selected))
    /\ pc' = "done"
    /\ UNCHANGED << hist, session >>
    /\ UNCHANGED << inventory, config, tie, err, pair_work, dfE, dfX, dfS, dfG, dfT,
                    main_ranges, raw_ranges, base, t1, t2, pair_stats, p_i, results, df,
                    selected, counts, cur_min, picked >>

Next ==
    \/ Load
    \/ EstimateRanges
    \/ Prepare
    \/ PairIter
    \/ Aggregate
    \/ DivStart
    \/ DivScan
    \/ DivRelax
    \/ DivFill
    \/ DivReturn

Spec == Init /\ [][Next]_vars

\* ------------------------------------------------------------------------
\* A second call.  optimise_builds is synchronous and keeps nothing between
\* calls but what it wrote into the config object: the caller that has a
\* result calls again with the same inventory, and hist keeps the first call.
\* ------------------------------------------------------------------------
WeightStep == 3

\* weights_main with the weight of score k raised by WeightStep / WeightScale
RaiseWeight(wm, k) ==
    [ j \in 1..Len(wm) |-> IF wm[j][1] = k THEN << k, wm[j][2] + WeightStep >> ELSE wm[j] ]

\* The configs of the second call: the object of the first call as the engine
\* left it, an equal fresh config, one diversity setting changed, or one
\* positive main weight raised
SecondConfigs ==
    { config, hist.given }
    \cup { [ hist.given EXCEPT !.diverse = ~@ ],
           [ hist.given EXCEPT !.min_diff_parts = IF @ = 2 THEN 3 ELSE 2 ],
           [ hist.given EXCEPT !.per_part_max =
                IF IsNone(@) THEN Some(<< << "TRINKET_1", Some(1) >> >>) ELSE None ] }
    \cup { [ config EXCEPT !.weights_main = RaiseWeight(@, k) ] :
             k \in { q \in Keys(config.weights_main) : Get(config.weights_main, q) > 0 } }

\* The order a sort leaves equal keys in is fixed by its input: the same call
\* repeats it, a call with other inputs need not
SameInputs(cfg) == FillDefaults(cfg) = config

Rerun ==
    /\ pc = "done"
    /\ IsNone(hist.prev)
    /\ \E cfg \in SecondConfigs :
          /\ config' = cfg
          /\ hist' = [ given |-> cfg,
                       prev |-> Some([ given |-> hist.given, config |-> config,
                                       tie |-> tie, result |-> result ]) ]
          /\ tie' \in (IF SameInputs(cfg) THEN { tie } ELSE { "first", "last" })
    /\ pc' = "start"
    /\ err' = NoError
    /\ pair_work' = FALSE
    /\ dfE' = << >> /\ dfX' = << >> /\ dfS' = << >> /\ dfG' = << >> /\ dfT' = << >>
    /\ main_ranges' = << >> /\ raw_ranges' = << >>
    /\ base' = << >> /\ t1' = << >> /\ t2' = << >> /\ pair_stats' = << >>
    /\ p_i' = 0
    /\ results' = << >>
    /\ df' = << >>
    /\ selected' = << >>
    /\ counts' = EmptyCounts
    /\ cur_min' = 0
    /\ picked' = FALSE
    /\ result' = NoTable
    /\ UNCHANGED << inventory, session >>

TwoCallConfigs ==
    { c \in Configs :
        /\ c.constraints_raw = Some(EmptyDict) \/ IsNone(c.constraints_raw)
        /\ \A j \in 1..Len(Val(c.constraints_main)) : Val(Val(c.constraints_main)[j][2][1]) < 100 }

TwoCallInit ==
    /\ inventory = Inv(MediumGear[1], MediumGear[2], MediumGear[3], MediumGear[4],
                       {"T0", "T1", "T3"})
    /\ config \in TwoCallConfigs
    /\ tie \in {"first", "last"}
    /\ FreshCall
    /\ hist = FirstCall(config)
    /\ session = NoSession

TwoCallNext == Next \/ Rerun

TwoCallSpec == TwoCallInit /\ [][TwoCallNext]_vars

\* ------------------------------------------------------------------------
\* A second call without an entry of a non-canonical key
\* ------------------------------------------------------------------------
\* The dict d without its j-th entry
Without(d, j) == [ i \in 1..(Len(d) - 1) |-> IF i < j THEN d[i] ELSE d[i + 1] ]

\* The entries of a dict whose key is not in KEY2IDX
UnknownEntries(d) ==
    IF IsNone(d) THEN {} ELSE { j \in 1..Len(Val(d)) : ~KnownKey(Val(d)[j][1]) }

\* The configs that are cfg less one entry of weights_raw or constraints_raw
\* whose key is not canonical
WithoutUnknownEntry(cfg) ==
    { [ cfg EXCEPT !.weights_raw = Some(Without(Val(@), j)) ] :
        j \in UnknownEntries(cfg.weights_raw) }
    \cup { [ cfg EXCEPT !.constraints_raw = Some(Without(Val(@), j)) ] :
             j \in UnknownEntries(cfg.constraints_raw) }

\* The second call: the arguments of the first, less one such entry
RerunWithout ==
    /\ pc = "done"
    /\ IsNone(hist.prev)
    /\ \E cfg \in WithoutUnknownEntry(hist.given) :
          /\ config' = cfg
          /\ hist' = [ given |-> cfg,
                       prev |-> Some([ given |-> hist.given, config |-> config,
                                       tie |-> tie, result |-> result ]) ]
    /\ tie' \in { "first", "last" }
    /\ pc' = "start"
    /\ err' = NoError
    /\ pair_work' = FALSE
    /\ dfE' = << >> /\ dfX' = << >> /\ dfS' = << >> /\ dfG' = << >> /\ dfT' = << >>
    /\ main_ranges' = << >> /\ raw_ranges' = << >>
    /\ base' = << >> /\ t1' = << >> /\ t2' = << >> /\ pair_stats' = << >>
    /\ p_i' = 0
    /\ results' = << >>
    /\ df' = << >>
    /\ selected' = << >>
    /\ counts' = EmptyCounts
    /\ cur_min' = 0
    /\ picked' = FALSE
    /\ result' = NoTable
    /\ UNCHANGED << inventory, session >>

DropConfigs == { c \in Configs : WithoutUnknownEntry(c) # {} }

DropInit ==
    /\ inventory = Inv(MediumGear[1], MediumGear[2], MediumGear[3], MediumGear[4],
                       {"T0", "T1", "T3"})
    /\ config \in DropConfigs
    /\ tie \in {"first", "last"}
    /\ FreshCall
    /\ hist = FirstCall(config)
    /\ session = NoSession

DropNext == Next \/ RerunWithout

DropSpec == DropInit /\ [][DropNext]_vars

\* ------------------------------------------------------------------------
\* obk/ui_components.py: the stat totals of a result row, by part name
\* ------------------------------------------------------------------------
\* The catalog tables, computed once
CatalogTable == [ cat \in Range(CATEGORIES) |-> df_from_category(cat) ]

\* _part_vec(cat, name): the first catalog row of that name, zeros when absent
part_vec(cat, name) ==
    LET table == CatalogTable[cat]
    IN  IF \E r \in 1..Len(table) : table[r].name = name
        THEN table[CHOOSE r \in 1..Len(table) :
                      table[r].name = name /\ \A q \in 1..(r - 1) : table[q].name # name].vec
        ELSE ZeroVec

\* totals_for_build_row(row)
totals_for_build_row(row) ==
    VecAdd(VecAdd(VecAdd(part_vec("ENGINE", row.ENGINE), part_vec("EXHAUST", row.EXHAUST)),
                  VecAdd(part_vec("SUSPENSION", row.SUSPENSION), part_vec("GEARBOX", row.GEARBOX))),
           VecAdd(part_vec("TRINKET", row.TRINKET_1), part_vec("TRINKET", row.TRINKET_2)))

\* ------------------------------------------------------------------------
\* Builds, for stating the properties: one catalog part per gear category and
\* an unordered pair of distinct trinkets, written in catalog order
\* ------------------------------------------------------------------------
CatalogNames(cat) == { PARTS_DATABASE[cat][r].name : r \in 1..Len(PARTS_DATABASE[cat]) }
CatalogPos(cat, name) == CHOOSE r \in 1..Len(PARTS_DATABASE[cat]) : PARTS_DATABASE[cat][r].name = name

CatalogBuilds ==
    { [ ENGINE |-> e, EXHAUST |-> x, SUSPENSION |-> s, GEARBOX |-> g,
        TRINKET_1 |-> pr[1], TRINKET_2 |-> pr[2] ] :
      e \in CatalogNames("ENGINE"), x \in CatalogNames("EXHAUST"),
      s \in CatalogNames("SUSPENSION"), g \in CatalogNames("GEARBOX"),
      pr \in { q \in CatalogNames("TRINKET") \X CatalogNames("TRINKET") :
                 CatalogPos("TRINKET", q[1]) < CatalogPos("TRINKET", q[2]) } }

BuildTotals == [ b \in CatalogBuilds |-> totals_for_build_row(b) ]
BuildScores == [ b \in CatalogBuilds |-> compute_main_scores(BuildTotals[b]) ]

\* The builds that can be formed from the inventory
InventoryBuilds ==
    { b \in CatalogBuilds :
        /\ b.ENGINE \in inventory.ENGINE /\ b.EXHAUST \in inventory.EXHAUST
        /\ b.SUSPENSION \in inventory.SUSPENSION /\ b.GEARBOX \in inventory.GEARBOX
        /\ b.TRINKET_1 \in inventory.TRINKET /\ b.TRINKET_2 \in inventory.TRINKET }

\* The constraint dicts as given (None is no constraint)
GivenMain == IF IsNone(config.constraints_main) THEN EmptyDict ELSE Val(config.constraints_main)
GivenRaw == IF IsNone(config.constraints_raw) THEN EmptyDict ELSE Val(config.constraints_raw)

\* lo <= v when lo is set and v <= hi when hi is set
Within(v, lo, hi) == (IsNone(lo) \/ Val(lo) <= v) /\ (IsNone(hi) \/ v <= Val(hi))

\* The build with main scores sc and stat totals tot meets every active constraint
MeetsConstraints(sc, tot) ==
    /\ \A j \in 1..Len(GivenMain) :
          Within(sc[GivenMain[j][1]], GivenMain[j][2][1], GivenMain[j][2][2])
    /\ \A j \in 1..Len(GivenRaw) :
          KnownKey(GivenRaw[j][1]) =>
             Within(tot[KEY2IDX[GivenRaw[j][1]] + 1], GivenRaw[j][2][1], GivenRaw[j][2][2])

Surviving == { b \in InventoryBuilds : MeetsConstraints(BuildScores[b], BuildTotals[b]) }

\* The build a result row names, and the row's own scores
RowBuild(row) ==
    [ ENGINE |-> row.ENGINE, EXHAUST |-> row.EXHAUST, SUSPENSION |-> row.SUSPENSION,
      GEARBOX |-> row.GEARBOX, TRINKET_1 |-> row.TRINKET_1, TRINKET_2 |-> row.TRINKET_2 ]
RowScores(row) == [ race |-> row.race, coin |-> row.coin, drift |-> row.drift, combat |-> row.combat ]
ResultBuilds == { RowBuild(result.rows[r]) : r \in 1..Len(result.rows) }

\* Whether per_part_max limits some part column during the diversity pass
QuotaInForce ==
    /\ config.diverse
    /\ ~IsNone(config.per_part_max)
    /\ \E j \in 1..Len(Val(config.per_part_max)) :
          /\ Val(config.per_part_max)[j][1] \in Range(PART_COLS)
          /\ ~IsNone(Val(config.per_part_max)[j][2])

Returned == pc = "done"

\* ------------------------------------------------------------------------
\* C1: every returned row meets every active main and raw constraint, both
\* endpoints inclusive: a build failing a constraint never appears, and when
\* the table is not full (and no quota is in force) every build that meets
\* the constraints, also at an endpoint, appears.
\* ------------------------------------------------------------------------
C1_ConstraintsHold ==
    Returned =>
      /\ \A r \in 1..Len(result.rows) :
            MeetsConstraints(RowScores(result.rows[r]), totals_for_build_row(result.rows[r]))
      /\ (Len(result.rows) < config.top_n /\ ~QuotaInForce) => Surviving \subseteq ResultBuilds

\* A row sits exactly on the lower race bound while another build was rejected
C1_Witness ==
    /\ Returned
    /\ \E j \in 1..Len(GivenMain) :
          /\ GivenMain[j][1] = "race" /\ ~IsNone(GivenMain[j][2][1])
          /\ \E r \in 1..Len(result.rows) : result.rows[r].race = Val(GivenMain[j][2][1])
    /\ Surviving # InventoryBuilds

\* ------------------------------------------------------------------------
\* C2: for every configuration, per-part quotas included, the number of
\* returned rows equals min(top_n, number of distinct builds that meet all
\* constraints).
\* ------------------------------------------------------------------------
C2_SizeLaw ==
    Returned => Len(result.rows) = Min(config.top_n, Cardinality(Surviving))

\* C2 (amended): the number of returned rows never exceeds min(top_n, number
\* of distinct builds that meet all constraints), and equals it whenever no
\* per-part quota is in force.
C2_SizeLawNoQuota ==
    Returned =>
      /\ Len(result.rows) <= Min(config.top_n, Cardinality(Surviving))
      /\ ~QuotaInForce => Len(result.rows) = Min(config.top_n, Cardinality(Surviving))

\* A diversity pass without quotas fills top_n >= 2 rows out of more survivors
C2_Witness ==
    /\ Returned
    /\ config.diverse /\ ~QuotaInForce
    /\ config.top_n >= 2
    /\ Len(result.rows) = config.top_n
    /\ Cardinality(Surviving) > config.top_n

\* The objective of a build, from the stat totals of its parts by name
BuildObjective(b) == Objective(BuildScores[b], BuildTotals[b], ObjDen)
BestSurviving(b) ==
    b \in Surviving /\ \A c \in Surviving : BuildObjective(b) >= BuildObjective(c)

\* The scenario of the spec: one part per gear category with the only engine
\* adding 1 Speed, trinkets T1, T2, T3 of which only T3 adds Speed,
\* weights_main = {race: 1}, no constraints, top_n = 1
SpeedScenario ==
    /\ inventory = Inv({"E1"}, {"X1"}, {"S1"}, {"G1"}, {"T1", "T2", "T3"})
    /\ config.weights_main = << << "race", 1 * WeightScale >> >>
    /\ IsNone(config.weights_raw) \/ config.weights_raw = Some(EmptyDict)
    /\ GivenMain = EmptyDict /\ GivenRaw = EmptyDict
    /\ config.top_n = 1

\* ------------------------------------------------------------------------
\* C3: with diversity on or off, the first returned row is a build of maximum
\* objective among the builds that meet the constraints; in the scenario the
\* single row is E1, X1, S1, G1 with T3 and one of T1/T2, and its race score
\* is the Speed coefficient times the total Speed 2.
\* ------------------------------------------------------------------------
C3_BestFirst ==
    Returned =>
      /\ Len(result.rows) >= 1 =>
            /\ BestSurviving(RowBuild(result.rows[1]))
            /\ result.rows[1].objective = Fin(BuildObjective(RowBuild(result.rows[1])))
      /\ SpeedScenario =>
            /\ Len(result.rows) = 1
            /\ RowBuild(result.rows[1]) \in
                 { [ ENGINE |-> "E1", EXHAUST |-> "X1", SUSPENSION |-> "S1", GEARBOX |-> "G1",
                     TRINKET_1 |-> a, TRINKET_2 |-> "T3" ] : a \in {"T1", "T2"} }
            /\ result.rows[1].race = Get(RACE_COEFFS, "Speed") * 2

\* The scenario has run with the diversity pass on, and two builds tie for first
C3_Witness ==
    /\ Returned /\ SpeedScenario /\ config.diverse
    /\ Len(result.rows) = 1
    /\ Cardinality({ b \in Surviving : BestSurviving(b) }) = 2

\* ------------------------------------------------------------------------
\* C4: with diversity disabled, every build that meets the constraints and is
\* not in the result has an objective no greater than that of every returned
\* row, although each trinket pair contributes a bounded number of candidates.
\* ------------------------------------------------------------------------
C4_TopNWithoutDiversity ==
    (Returned /\ ~config.diverse) =>
      \A b \in Surviving \ ResultBuilds :
         \A r \in 1..Len(result.rows) :
            ObjGe(result.rows[r].objective, Fin(BuildObjective(b)))

\* Two rows of one trinket pair are returned while other survivors are left out
C4_Witness ==
    /\ Returned /\ ~config.diverse
    /\ Surviving \ ResultBuilds # {}
    /\ \E q, r \in 1..Len(result.rows) :
          /\ q < r
          /\ result.rows[q].TRINKET_1 = result.rows[r].TRINKET_1
          /\ result.rows[q].TRINKET_2 = result.rows[r].TRINKET_2

\* ------------------------------------------------------------------------
\* C5: in every returned row TRINKET_1 and TRINKET_2 are different parts, and
\* no two rows hold the same engine, exhaust, suspension and gearbox with the
\* same unordered pair of trinkets.
\* ------------------------------------------------------------------------
UnorderedBuild(row) ==
    << row.ENGINE, row.EXHAUST, row.SUSPENSION, row.GEARBOX, { row.TRINKET_1, row.TRINKET_2 } >>

C5_DistinctTrinketsAndBuilds ==
    Returned =>
      /\ \A r \in 1..Len(result.rows) : result.rows[r].TRINKET_1 # result.rows[r].TRINKET_2
      /\ \A q, r \in 1..Len(result.rows) :
            q # r => UnorderedBuild(result.rows[q]) # UnorderedBuild(result.rows[r])

\* Two returned rows share the gear and one trinket, which is the second
\* trinket of one row and the first of the other
C5_Witness ==
    /\ Returned
    /\ \E q, r \in 1..Len(result.rows) :
          /\ result.rows[q].ENGINE = result.rows[r].ENGINE
          /\ result.rows[q].EXHAUST = result.rows[r].EXHAUST
          /\ result.rows[q].SUSPENSION = result.rows[r].SUSPENSION
          /\ result.rows[q].GEARBOX = result.rows[r].GEARBOX
          /\ result.rows[q].TRINKET_2 = result.rows[r].TRINKET_1

\* ------------------------------------------------------------------------
\* C6: the race, coin, drift and combat scores of every returned row equal
\* the linear formulas applied to the elementwise sum of the stat vectors of
\* the six parts the row names.
\* ------------------------------------------------------------------------
C6_ScoresMatchParts ==
    Returned =>
      \A r \in 1..Len(result.rows) :
         RowScores(result.rows[r]) = compute_main_scores(totals_for_build_row(result.rows[r]))

\* A returned row mixes first and later parts of its categories
C6_Witness ==
    /\ Returned
    /\ \E r \in 1..Len(result.rows) :
          /\ result.rows[r].ENGINE = "E2" /\ result.rows[r].EXHAUST = "X1"
          /\ result.rows[r].GEARBOX = "G2"
          /\ result.rows[r].TRINKET_1 = "T1" /\ result.rows[r].TRINKET_2 = "T3"

\* The categories without a selected part that exists in the catalog
MissingCats == { cat \in Range(CATEGORIES) : inventory[cat] \cap CatalogNames(cat) = {} }
Started == pc # "start"
Failed == pc = "error"

\* ------------------------------------------------------------------------
\* C7: with exactly one trinket selected and a part selected in every other
\* category, the run aborts with the 'Select at least 2 trinkets' error and
\* no other, before any computation on the trinket pairs, whether
\* normalize_objective is on or off.
\* ------------------------------------------------------------------------
OneTrinket ==
    /\ Cardinality(inventory.TRINKET) = 1
    /\ MissingCats = {}

C7_InsufficientTrinkets ==
    (OneTrinket /\ Started) =>
      /\ pc \in {"ranges", "check", "error"}
      /\ ~pair_work
      /\ Failed => err = TrinketError

\* ------------------------------------------------------------------------
\* C8: when a category has no selected part that exists in the catalog, the
\* run fails before any build is enumerated, with an error naming such a
\* category; no result table is returned and no selection is substituted.
\* ------------------------------------------------------------------------
C8_EmptyCategoryFails ==
    MissingCats # {} =>
      /\ Started => Failed
      /\ Failed => /\ err.type = "ValueError" /\ err.msg = "No selected parts in"
                   /\ err.cat \in MissingCats
      /\ result = NoTable
      /\ base = << >> /\ results = << >> /\ p_i = 0 /\ ~pair_work
      /\ dfE = << >> /\ dfX = << >> /\ dfS = << >> /\ dfG = << >> /\ dfT = << >>

\* The run failed on the exhaust although the gearbox selection is empty too
C8_Witness ==
    /\ Failed
    /\ MissingCats = {"EXHAUST", "GEARBOX"}
    /\ err.cat = "EXHAUST"

\* ------------------------------------------------------------------------
\* C9: when the inventory is valid and no build meets the constraints, the
\* run returns an empty table with the standard columns and raises no error.
\* ------------------------------------------------------------------------
ValidInventory ==
    /\ MissingCats = {}
    /\ Cardinality(inventory.TRINKET \cap CatalogNames("TRINKET")) >= 2

C9_NoSurvivorsEmptyTable ==
    (pc \notin {"start", "ranges", "check", "loop"} /\ ValidInventory /\ Surviving = {}) =>
      /\ Returned
      /\ err = NoError
      /\ result = [columns |-> COLS, rows |-> << >>]

\* The lower race bound lies above the race score of every build
C9_Witness ==
    /\ Returned /\ ValidInventory
    /\ \E j \in 1..Len(GivenMain) :
          /\ GivenMain[j][1] = "race" /\ ~IsNone(GivenMain[j][2][1])
          /\ \A b \in InventoryBuilds : BuildScores[b].race < Val(GivenMain[j][2][1])
    /\ result = [columns |-> COLS, rows |-> << >>]

\* ------------------------------------------------------------------------
\* C10: with min_diff_parts = 2 and no quotas, if the builds that meet the
\* constraints include top_n builds that pairwise differ in at least 2 of the
\* 6 part slots, every two returned rows differ in at least 2 slots.
\* ------------------------------------------------------------------------
SlotsDiffering(a, b) ==
    Cardinality({ c \in {"ENGINE", "EXHAUST", "SUSPENSION", "GEARBOX", "TRINKET_1", "TRINKET_2"} :
                    a[c] # b[c] })
PairwiseApart(rows) ==
    \A q, r \in 1..Len(rows) : q < r => SlotsDiffering(rows[q], rows[r]) >= 2

\* n more builds of pool can be chosen, pairwise 2 slots apart and 2 slots
\* apart from each build of chosen
RECURSIVE CanPick(_, _, _)
CanPick(chosen, pool, n) ==
    \/ n = 0
    \/ \E b \in pool :
          /\ \A c \in chosen : SlotsDiffering(b, c) >= 2
          /\ CanPick(chosen \cup {b}, pool \ {b}, n - 1)

DiversityCase ==
    Returned /\ config.diverse /\ config.min_diff_parts = 2 /\ ~QuotaInForce

C10_DiversityBound ==
    DiversityCase => (PairwiseApart(result.rows) \/ ~CanPick({}, Surviving, config.top_n))

\* C10 (amended): with min_diff_parts = 2 and no quotas, if the diversity pass
\* returns without having relaxed its threshold, every two returned rows
\* differ in at least 2 of the 6 part slots.
C10_ApartUnlessRelaxed ==
    (DiversityCase /\ cur_min = config.min_diff_parts) => PairwiseApart(result.rows)

\* Three rows were chosen at the full threshold, passing over a better
\* candidate that was too close to a chosen row
C10_Witness ==
    /\ DiversityCase /\ cur_min = config.min_diff_parts
    /\ Len(result.rows) >= 3
    /\ \E i \in 1..Len(selected) : selected[i] # i - 1

\* ------------------------------------------------------------------------
\* C11: for every limit configured in per_part_max for a part slot, no part
\* occurs in that slot in more selected rows than the limit, after every
\* step of the diversity pass (the first row, each accepted row, each
\* relaxation, the fill) and in the returned table.
\* ------------------------------------------------------------------------
InDiversityPass == pc \in {"div_loop", "div_stalled", "div_break"}
Quotas ==
    IF IsNone(config.per_part_max) THEN {}
    ELSE { q \in Range(Val(config.per_part_max)) : q[1] \in Range(PART_COLS) /\ ~IsNone(q[2]) }
Uses(rows, col, v) == Cardinality({ r \in 1..Len(rows) : rows[r][col] = v })

C11_QuotaRespected ==
    /\ InDiversityPass =>
          \A q \in Quotas : \A i \in Range(selected) :
             Uses(Loc(df, selected), q[1], At(df, i)[q[1]]) <= Val(q[2])
    /\ (Returned /\ config.diverse) =>
          \A q \in Quotas : \A r \in 1..Len(result.rows) :
             Uses(result.rows, q[1], result.rows[r][q[1]]) <= Val(q[2])

\* ------------------------------------------------------------------------
\* C12: the diversity pass always terminates, with top_n rows, with every
\* candidate selected, or with the rows selected so far when every remaining
\* candidate is blocked by a quota.
\* ------------------------------------------------------------------------
RemainingBlocked ==
    \A i \in 0..(Len(df) - 1) : InSelected(i, selected) \/ ~ok_quota(i, counts)

\* A natural number that every step of the pass decreases: the candidates not
\* yet selected, then the threshold, then the position within one iteration
PassMeasure ==
    LET left == (Len(df) - Len(selected)) * (config.min_diff_parts + 1) + cur_min
    IN  CASE pc = "div_loop" -> 2 * left + 3
          [] pc = "div_stalled" -> 2 * left + 2
          [] pc = "div_break" -> 1
          [] OTHER -> 0

\* In every state of the pass the code has a next step
PassCanStep ==
    \/ pc = "div_loop" /\ DivMore
    \/ pc = "div_loop" /\ ~DivMore
    \/ pc = "div_stalled" /\ cur_min > 0
    \/ pc = "div_stalled" /\ ~(cur_min > 0)
    \/ pc = "div_break"

C12_DiversityTerminates ==
    [][ InDiversityPass =>
          /\ PassCanStep
          /\ PassMeasure' >= 0 /\ PassMeasure' < PassMeasure
          /\ Returned' => \/ Len(result'.rows) = config.top_n
                          \/ Len(result'.rows) = Len(df)
                          \/ RemainingBlocked' ]_vars

\* The pass relaxed its threshold to 0 and stopped short of top_n rows with
\* candidates left over
C12_Witness ==
    /\ Returned /\ config.diverse
    /\ cur_min = 0 /\ config.min_diff_parts >= 2
    /\ Len(result.rows) < config.top_n /\ Len(result.rows) < Len(df)
    /\ RemainingBlocked

\* C14: optimise_builds leaves the OptimiseConfig it was given unchanged, also
\* when weights_main is empty or one of the mappings is None: at every point
\* after the call has begun the config object is the one the caller passed
C14_ConfigUnchanged ==
    pc # "start" => config = hist.given

\* ------------------------------------------------------------------------
\* Two calls on the same inventory
\* ------------------------------------------------------------------------
SecondCall == ~IsNone(hist.prev)
First == Val(hist.prev)

\* The second call was given the config of the first: the same object, as the
\* first call left it, or a fresh config equal to the one first given
SameConfigAgain == SecondCall /\ hist.given \in { First.given, First.config }

RaisedScores ==
    { k \in Range(MAIN_SCORES) :
        /\ SecondCall
        /\ k \in Keys(First.config.weights_main)
        /\ Get(First.config.weights_main, k) > 0
        /\ hist.given = [ First.config EXCEPT !.weights_main = RaiseWeight(@, k) ] }

\* The surviving builds that attain the maximum of score k
TopOf(k) ==
    { b \in Surviving : \A c \in Surviving : BuildScores[b][k] >= BuildScores[c][k] }

\* The row of build b in a table, 0 when absent
Pos(rows, b) ==
    IF \E r \in 1..Len(rows) : RowBuild(rows[r]) = b
    THEN CHOOSE r \in 1..Len(rows) : RowBuild(rows[r]) = b
    ELSE 0

\* The rows of the second table placed before build b (all of them when b is absent)
Ahead(b) ==
    IF Pos(result.rows, b) = 0 THEN 1..Len(result.rows) ELSE 1..(Pos(result.rows, b) - 1)

\* C13: if build A attains the maximum of score k among the surviving builds
\* and the positive weight of k is increased, all else fixed (the order the
\* sorts give to equal objectives included), A is not moved to a later row
\* and is not dropped from the table
C13_WeightMonotone ==
    (Returned /\ SecondCall /\ tie = First.tie) =>
      \A k \in RaisedScores : \A A \in TopOf(k) :
         Pos(First.result.rows, A) > 0 =>
            /\ Pos(result.rows, A) > 0
            /\ Pos(result.rows, A) <= Pos(First.result.rows, A)

\* C13 (amended): with diversity off, A is moved to a later row or dropped
\* only behind builds whose objective equals A's
C13_MonotoneUpToTies ==
    (Returned /\ ~config.diverse) =>
      \A k \in RaisedScores : \A A \in TopOf(k) :
         Pos(First.result.rows, A) > 0 =>
            \/ /\ Pos(result.rows, A) > 0
               /\ Pos(result.rows, A) <= Pos(First.result.rows, A)
            \/ \E r \in Ahead(A) : result.rows[r].objective = Fin(BuildObjective(A))

\* With diversity off a raised weight changed the order of the table and the
\* build that attains the maximum of that score moved up
C13_Witness ==
    /\ Returned /\ ~config.diverse
    /\ \E k \in RaisedScores : \E A \in TopOf(k) :
          /\ Pos(First.result.rows, A) > 1
          /\ Pos(result.rows, A) > 0
          /\ Pos(result.rows, A) < Pos(First.result.rows, A)

\* ------------------------------------------------------------------------
\* obk/ui_state.py: make_run_signature(inventory, cfg)
\* ------------------------------------------------------------------------
\* d.get(k, (None, None))
GetBounds(d, k) == IF k \in Keys(d) THEN Get(d, k) ELSE << None, None >>

\* .items() of a mapping that is None
SignatureRaises(cfg) ==
    IsNone(cfg.weights_raw) \/ IsNone(cfg.constraints_main) \/ IsNone(cfg.constraints_raw)

\* st.session_state.get("preset_name", "Custom")
preset_sig ==
    IF "preset_name" \in DOMAIN session.widgets THEN session.widgets["preset_name"] ELSE "Custom"

\* The tuple of line 127; a sorted tuple of a dict's items is given as their set
make_run_signature(inv, cfg) ==
    IF SignatureRaises(cfg)
    THEN [ raised |-> "AttributeError" ]
    ELSE [ inv_sig |-> [ cat \in Range(CATEGORIES) |-> inv[cat] ],
           w_main_sig |-> Range(cfg.weights_main),
           w_raw_sig |-> Range(Val(cfg.weights_raw)),
           c_main_sig |-> { << k, GetBounds(Val(cfg.constraints_main), k) >> : k \in Range(MAIN_SCORES) },
           c_raw_sig |-> { << k, GetBounds(Val(cfg.constraints_raw), k) >> : k \in Range(RAW_STAT_KEYS) },
           preset_sig |-> preset_sig,
           top_n |-> cfg.top_n,
           norm_sig |-> cfg.normalize_objective ]

\* C15: the run signature covers every input that affects the result, diverse,
\* min_diff_parts and per_part_max included: two calls on the same inventory
\* whose configs have the same signature, sorting equal objectives alike,
\* return the same table
C15_SignatureCoversInputs ==
    ( /\ Returned /\ SecondCall
      /\ tie = First.tie
      /\ ~SignatureRaises(config)
      /\ make_run_signature(inventory, config) = make_run_signature(inventory, First.config) )
    => result = First.result

\* ------------------------------------------------------------------------
\* obk/scoring.py: compute_global_score_maxima, normalize_scores_global
\* ------------------------------------------------------------------------
\* _linear_score_df(df, coeffs): one score per row, an empty array for df.empty
linear_score_df(table, coeffs) == [ r \in 1..Len(table) |-> LinScore(coeffs, table[r].vec) ]

\* float(s.max()) if s.size else 0.0
best_single(table, coeffs) ==
    LET s == linear_score_df(table, coeffs)
    IN  IF Len(s) > 0 THEN SetMax(Range(s)) ELSE 0

\* best_two_trinkets that counts the best trinket twice
best_two_trinkets_same(table, coeffs) ==
    LET s == linear_score_df(table, coeffs)
    IN  IF Len(s) < 2 THEN 0 ELSE 2 * SetMax(Range(s))

\* np.partition(s, -2)[-2:].sum(): the two largest entries of s, 0.0 below two
best_two_trinkets(table, coeffs) ==
    LET s == linear_score_df(table, coeffs)
    IN  IF Len(s) < 2 THEN 0
        ELSE LET top == CHOOSE i \in 1..Len(s) : \A j \in 1..Len(s) : s[i] >= s[j]
                 next == CHOOSE i \in 1..Len(s) \ {top} :
                            \A j \in 1..Len(s) \ {top} : s[i] >= s[j]
             IN  s[top] + s[next]

\* The maxima dict of lines 61-66, for five tables
score_maxima(tE, tX, tS, tG, tT) ==
    [ k \in Range(MAIN_SCORES) |->
        best_single(tE, ScoreMap(k)) + best_single(tX, ScoreMap(k))
        + best_single(tS, ScoreMap(k)) + best_single(tG, ScoreMap(k))
        + best_two_trinkets(tT, ScoreMap(k)) ]

compute_global_score_maxima ==
    score_maxima(CatalogTable["ENGINE"], CatalogTable["EXHAUST"], CatalogTable["SUSPENSION"],
                 CatalogTable["GEARBOX"], CatalogTable["TRINKET"])

\* The largest score k among a set of builds
BestScore(builds, k) == SetMax({ BuildScores[b][k] : b \in builds })

\* The maxima over the builds of the full catalog, computed once
CatalogBest == [ k \in Range(MAIN_SCORES) |-> BestScore(CatalogBuilds, k) ]

\* The five tables of the call have just been loaded
Loaded == pc = "ranges"

\* C18: compute_global_score_maxima returns, for each main score, the maximum
\* of that score over all builds of the full catalog; the same sum of
\* per-category maxima is the maximum over the builds of every selection of parts
C18_GlobalMaxima ==
    /\ compute_global_score_maxima = CatalogBest
    /\ (Loaded /\ InventoryBuilds # {}) =>
          \A k \in Range(MAIN_SCORES) :
             score_maxima(dfE, dfX, dfS, dfG, dfT)[k] = BestScore(InventoryBuilds, k)

\* A selection whose two best trinkets score differently, with a third one
\* below both, and whose race maximum is below that of the full catalog
C18_Witness ==
    /\ Loaded /\ Len(dfT) >= 3
    /\ Cardinality(Range(linear_score_df(dfT, RACE_COEFFS))) >= 3
    /\ score_maxima(dfE, dfX, dfS, dfG, dfT)["race"] < compute_global_score_maxima["race"]
    /\ compute_global_score_maxima["race"] = CatalogBest["race"]

\* normalize_scores_global for given maxima that divides whatever the maximum is
normalize_with_division(rows, max_scores) ==
    [ r \in 1..Len(rows) |->
        rows[r] @@ [ raw |-> [ k \in Range(MAIN_SCORES) |-> rows[r][k] ],
                     max |-> max_scores,
                     norm |-> [ k \in Range(MAIN_SCORES) |-> << 100 * rows[r][k], max_scores[k] >> ] ] ]

\* Lines 74-81 for given maxima.  The columns {k}_raw, {k}_max and {k}_norm of
\* a row are raw[k], max[k] and norm[k]; a percentage is the fraction
\* <<numerator, denominator>>, 0.0 is <<0, 1>>
normalize_with(rows, max_scores) ==
    [ r \in 1..Len(rows) |->
        rows[r] @@ [ raw |-> [ k \in Range(MAIN_SCORES) |-> rows[r][k] ],
                     max |-> max_scores,
                     norm |-> [ k \in Range(MAIN_SCORES) |->
                                  IF max_scores[k] > 0
                                  THEN << 100 * rows[r][k], max_scores[k] >>
                                  ELSE << 0, 1 >> ] ] ]

normalize_scores_global(rows) == normalize_with(rows, compute_global_score_maxima)

\* ------------------------------------------------------------------------
\* app.py: the run block.  Every interaction reruns the script: it reads the
\* widgets (inventory, config), and only with the Run button pressed calls
\* the engine and stores the table and the signature in st.session_state.
\* The engine runs without diversity and without objective normalisation.
\* ------------------------------------------------------------------------
\* make_run_signature of app.py without top_n
signature_without_top_n(inv, cfg) ==
    [ inv_sig |-> [ cat \in Range(CATEGORIES) |-> inv[cat] ],
      w_main_sig |-> Range(cfg.weights_main),
      w_raw_sig |-> Range(Val(cfg.weights_raw)),
      c_sig |-> { << k, GetBounds(Val(cfg.constraints_main), k) >> : k \in Range(MAIN_SCORES) },
      top_n |-> 0 ]

\* make_run_signature of app.py
make_run_signature_app(inv, cfg) ==
    [ inv_sig |-> [ cat \in Range(CATEGORIES) |-> inv[cat] ],
      w_main_sig |-> Range(cfg.weights_main),
      w_raw_sig |-> Range(Val(cfg.weights_raw)),
      c_sig |-> { << k, GetBounds(Val(cfg.constraints_main), k) >> : k \in Range(MAIN_SCORES) },
      top_n |-> cfg.top_n ]

\* show["objective"].round(4): the objective in 1/10000, from 1/(WeightScale * CoefScale)
round4(obj) ==
    [ obj EXCEPT !.v = (2 * 10000 * @ + WeightScale * CoefScale) \div (2 * WeightScale * CoefScale) ]

\* What the widgets can hold: (inventory, config)
AppInputs ==
    { Inv(SmallGear[1], SmallGear[2], SmallGear[3], SmallGear[4], {"T1", "T2", "T3"}),
      Inv(MediumGear[1], MediumGear[2], MediumGear[3], MediumGear[4], {"T0", "T1", "T3"}),
      Inv({}, {"X1"}, {"S1"}, {"G1"}, {"T1", "T2", "T3"}),
      Inv(SmallGear[1], SmallGear[2], SmallGear[3], SmallGear[4], {"T3"}) }
    \X
    { [ top_n |-> n, weights_main |-> w[1], weights_raw |-> Some(w[2]),
        constraints_main |-> Some(c), constraints_raw |-> Some(EmptyDict),
        normalize_objective |-> FALSE,
        diverse |-> FALSE, min_diff_parts |-> 2, per_part_max |-> None ] :
      n \in { MaxTopN - 1, MaxTopN },
      w \in { << << <<"race", 2>>, <<"coin", 0>>, <<"drift", 0>>, <<"combat", 0>> >>, EmptyDict >>,
              << << <<"race", 2>>, <<"coin", 5>>, <<"drift", 2>>, <<"combat", 2>> >>,
                 << <<"MaxCoins", 2>> >> >> },
      c \in { EmptyDict,
              << <<"race", << Some(1000), None >> >> >>,
              << <<"race", << Some(0), None >> >>, <<"coin", << Some(0), None >> >>,
                 <<"drift", << Some(0), None >> >>, <<"combat", << Some(0), None >> >> >> } }

AppInit ==
    /\ \E input \in AppInputs : inventory = input[1] /\ config = input[2]
    /\ tie \in {"first", "last"}
    /\ pc = "idle"
    /\ FreshLocals
    /\ hist = FirstCall(config)
    /\ session = NoSession

\* The locals of a call that has returned or raised
LocalsDropped ==
    /\ pair_work' = FALSE
    /\ dfE' = << >> /\ dfX' = << >> /\ dfS' = << >> /\ dfG' = << >> /\ dfT' = << >>
    /\ main_ranges' = << >> /\ raw_ranges' = << >>
    /\ base' = << >> /\ t1' = << >> /\ t2' = << >> /\ pair_stats' = << >>
    /\ p_i' = 0
    /\ results' = << >>
    /\ df' = << >>
    /\ selected' = << >>
    /\ counts' = EmptyCounts
    /\ cur_min' = 0
    /\ picked' = FALSE

\* The user changes parts, priorities, conditions or the number of results:
\* the script reruns with run False (lines 1926-1937)
ChangeWidgets ==
    /\ pc = "idle" /\ ~session.run
    /\ \E input \in AppInputs :
          /\ input # << inventory, config >>
          /\ inventory' = input[1]
          /\ config' = input[2]
    /\ tie' \in {"first", "last"}
    /\ err' = NoError
    /\ UNCHANGED << pc, hist, session, pair_work, dfE, dfX, dfS, dfG, dfT, main_ranges,
                    raw_ranges, base, t1, t2, pair_stats, p_i, results, df, selected,
                    counts, cur_min, picked, result >>

\* The message of the validation of lines 1941-1947, empty when it passes
RunRefused ==
    IF \E j \in 1..Len(CATEGORIES) : inventory[CATEGORIES[j]] = {}
    THEN [ type |-> "st.error", msg |-> "Select at least 1 item in",
           cat |-> CATEGORIES[CHOOSE j \in 1..Len(CATEGORIES) :
                                 /\ inventory[CATEGORIES[j]] = {}
                                 /\ \A q \in 1..(j - 1) : inventory[CATEGORIES[q]] # {}] ]
    ELSE IF Cardinality(inventory["TRINKET"]) < 2
         THEN [ type |-> "st.error", msg |-> "Select at least 2 trinkets.", cat |-> "" ]
         ELSE NoError

\* PressRun that forgets the stored table when the validation refuses
PressRunForgetful ==
    /\ pc = "idle" /\ ~session.run
    /\ IF RunRefused # NoError
       THEN /\ err' = RunRefused
            /\ session' = [ session EXCEPT !.results_df = None, !.last_run_sig = None ]
            /\ UNCHANGED << pc, hist >>
       ELSE /\ err' = NoError
            /\ session' = [ session EXCEPT !.run = TRUE ]
            /\ pc' = "start"
            /\ hist' = FirstCall(config)
    /\ UNCHANGED << inventory, config, tie, pair_work, dfE, dfX, dfS, dfG, dfT, main_ranges,
                    raw_ranges, base, t1, t2, pair_stats, p_i, results, df, selected,
                    counts, cur_min, picked, result >>

\* The user presses Run (lines 1940-1950): st.error and st.stop, or the call
PressRun ==
    /\ pc = "idle" /\ ~session.run
    /\ IF RunRefused # NoError
       THEN /\ err' = RunRefused
            /\ UNCHANGED << pc, hist, session >>
       ELSE /\ err' = NoError
            /\ session' = [ session EXCEPT !.run = TRUE ]
            /\ pc' = "start"
            /\ hist' = FirstCall(config)
    /\ UNCHANGED << inventory, config, tie, pair_work, dfE, dfX, dfS, dfG, dfT, main_ranges,
                    raw_ranges, base, t1, t2, pair_stats, p_i, results, df, selected,
                    counts, cur_min, picked, result >>

\* Lines 1951-1967: the call raised (st.error, st.stop), returned an empty
\* table, or returned rows, which are normalised and stored with the signature
FinishRun ==
    /\ session.run
    /\ pc \in {"done", "error"}
    /\ IF pc = "error"
       THEN /\ err' = [ type |-> "st.error", msg |-> err.msg, cat |-> err.cat ]
            /\ session' = [ session EXCEPT !.run = FALSE ]
       ELSE /\ err' = NoError
            /\ IF result.rows = << >>
               THEN session' = [ session EXCEPT !.run = FALSE, !.results_df = None,
                                                !.last_run_sig = None ]
               ELSE LET show == normalize_scores_global(result.rows)
                    IN  session' =
                          [ session EXCEPT
                              !.run = FALSE,
                              !.results_df =
                                 Some([ r \in 1..Len(show) |->
                                          [ show[r] EXCEPT !.objective = round4(@) ] ]),
                              !.last_run_sig = Some(make_run_signature_app(inventory, config)) ]
    /\ pc' = "idle"
    /\ result' = NoTable
    /\ LocalsDropped
    /\ UNCHANGED << inventory, config, tie, hist >>

AppSpec ==
    AppInit /\ [][ \/ ChangeWidgets \/ PressRun \/ FinishRun
                   \/ Load \/ EstimateRanges \/ Prepare \/ PairIter \/ Aggregate ]_vars

\* The stored table or the stored signature is changed by the step
StoredChanged ==
    \/ session'.results_df # session.results_df
    \/ session'.last_run_sig # session.last_run_sig

\* C16: the stored result table and the stored last-run signature change only
\* in a run the user asked for, when its call has returned: a change of the
\* widgets without Run, and a Run that fails validation, leave both unchanged
C16_StoredOnlyOnRun ==
    [][ StoredChanged => (session.run /\ pc = "done" /\ RunRefused = NoError) ]_vars

\* A table is stored, the widgets have since been changed to a selection that
\* fails validation, and Run has been pressed and refused
C16_Witness ==
    /\ pc = "idle" /\ ~session.run
    /\ ~IsNone(session.results_df)
    /\ Val(session.last_run_sig) # make_run_signature_app(inventory, config)
    /\ err = RunRefused /\ err # NoError

\* The rows the app has stored
StoredRows == IF IsNone(session.results_df) THEN << >> ELSE Val(session.results_df)

\* C19: for every result row and every score, the percentage written to the
\* {score}_norm column lies between 0 and 100 inclusive
C19_PercentInRange ==
    \A r \in 1..Len(StoredRows) : \A k \in Range(MAIN_SCORES) :
       /\ 0 <= StoredRows[r].norm[k][1]
       /\ StoredRows[r].norm[k][1] <= 100 * StoredRows[r].norm[k][2]

\* Maxima lowered by 0..MaxDrop below those of the catalog
MaxDrop == 2
LoweredMaxima ==
    { [ k \in Range(MAIN_SCORES) |-> compute_global_score_maxima[k] - d * CoefScale ] :
        d \in 0..MaxDrop }

\* C20: when the global maximum of a score is zero or negative, every row gets
\* the percentage 0 for that score and no division by the maximum is made;
\* the run raises no error
C20_ZeroWhenNoPositiveMax ==
    /\ \A r \in 1..Len(StoredRows) : \A k \in Range(MAIN_SCORES) :
          compute_global_score_maxima[k] <= 0 => StoredRows[r].norm[k] = << 0, 1 >>
    /\ (session.run /\ pc = "done") =>
          \A m \in LoweredMaxima : \A k \in Range(MAIN_SCORES) :
             m[k] <= 0 =>
                \A r \in 1..Len(result.rows) :
                   normalize_with(result.rows, m)[r].norm[k] = << 0, 1 >>

\* A stored row whose combat score is not 0 while the combat maximum of the
\* catalog is 0: its percentage is 0 and the run ended without an error
C20_Witness ==
    /\ pc = "idle" /\ err = NoError
    /\ compute_global_score_maxima["combat"] = 0
    /\ \E r \in 1..Len(StoredRows) :
          /\ StoredRows[r].combat # 0
          /\ StoredRows[r].norm["combat"] = << 0, 1 >>

\* ------------------------------------------------------------------------
\* obk/ranges.py: the estimated ranges against the builds of the selection
\* ------------------------------------------------------------------------
\* The tables are loaded and hold a trinket pair
RangesDefined == Loaded /\ ~trinket_pair_minmax_raises(dfT)

\* v (in the quantity's unit) lies in the interval rng (in 1/RangeScale of it)
InInterval(v, rng) == rng[1] <= RangeScale * v /\ RangeScale * v <= rng[2]

\* The raw stats some catalog part sets
CatalogStats ==
    UNION { UNION { DOMAIN PARTS_DATABASE[cat][r].stats : r \in 1..Len(PARTS_DATABASE[cat]) } :
              cat \in Range(CATEGORIES) }

\* The raw stats the ranges are checked for: those of the catalog and one more
RawKeysChecked == { q \in Range(RAW_STAT_KEYS) : q \in CatalogStats \/ q = "StartBoost" }

\* C21: for every build that can be formed from the selected parts, each main
\* score lies in its interval of estimate_main_score_ranges (already in the
\* unpadded (lo, hi) of _lin_minmax) and each raw stat total in its interval
\* of estimate_raw_stat_ranges, whose unpadded ends some build attains
C21_RangesContainBuilds ==
    RangesDefined =>
      LET builds == InventoryBuilds
      IN  /\ \A k \in Range(MAIN_SCORES) :
                LET lm == lin_minmax(ScoreMap(k))
                    rng == Padded(lm[1], lm[2], RangeScale * CoefScale)
                IN  /\ rng = estimate_main_score_ranges[k]
                    /\ \A b \in builds :
                          /\ InInterval(BuildScores[b][k], rng)
                          /\ lm[1] <= BuildScores[b][k] /\ BuildScores[b][k] <= lm[2]
          /\ \A k \in RawKeysChecked :
                LET lh == << total_min(k), total_max(k) >>
                    rng == estimate_raw_stat_ranges({k})[k]
                    tot == { BuildTotals[b][KEY2IDX[k] + 1] : b \in builds }
                IN  /\ \A v \in tot : InInterval(v, rng)
                    /\ lh[1] \in tot /\ lh[2] \in tot

\* A stat with a negative coefficient varies over the selection and a build
\* sits on the low end of the coin interval before padding
C21_Witness ==
    /\ RangesDefined
    /\ total_min("MaxCoins") < total_max("MaxCoins")
    /\ \E b \in InventoryBuilds : BuildScores[b]["coin"] = lin_minmax(COIN_COEFFS)[1]
    /\ lin_minmax(COIN_COEFFS)[1] = Get(COIN_COEFFS, "MaxCoins") * total_max("MaxCoins")

\* The margins by which an interval rng (in 1/RangeScale) is wider than [lo, hi]
MarginLow(rng, lo) == RangeScale * lo - rng[1]
MarginHigh(rng, hi) == rng[2] - RangeScale * hi

\* 5% of (hi - lo), in 1/RangeScale of the unit
FivePercent(lo, hi) == ((hi - lo) * RangeScale) \div 20

\* C22: both estimators widen [lo, hi] on each end by at least 1 unit or 5%
\* of (hi - lo), whichever is larger, so that the returned interval has lo < hi
C22_MarginOneUnit ==
    RangesDefined =>
      /\ \A k \in Range(MAIN_SCORES) :
            LET lm == lin_minmax(ScoreMap(k))
                rng == estimate_main_score_ranges[k]
            IN  /\ MarginLow(rng, lm[1]) >= Max(RangeScale * CoefScale, FivePercent(lm[1], lm[2]))
                /\ MarginHigh(rng, lm[2]) >= Max(RangeScale * CoefScale, FivePercent(lm[1], lm[2]))
                /\ rng[1] < rng[2]
      /\ \A k \in RawKeysChecked :
            LET lh == << total_min(k), total_max(k) >>
                rng == estimate_raw_stat_ranges({k})[k]
            IN  /\ MarginLow(rng, lh[1]) >= Max(RangeScale, FivePercent(lh[1], lh[2]))
                /\ MarginHigh(rng, lh[2]) >= Max(RangeScale, FivePercent(lh[1], lh[2]))
                /\ rng[1] < rng[2]

\* C22 (amended): the margin is the larger of 1.0 and 5% of (hi - lo) for a
\* main score and the larger of 0.1 and 5% of (hi - lo) for a raw stat, so
\* that the returned interval has lo < hi
C22_MarginPerEstimator ==
    RangesDefined =>
      /\ \A k \in Range(MAIN_SCORES) :
            LET lm == lin_minmax(ScoreMap(k))
                rng == estimate_main_score_ranges[k]
            IN  /\ MarginLow(rng, lm[1]) = Max(RangeScale * CoefScale, FivePercent(lm[1], lm[2]))
                /\ MarginHigh(rng, lm[2]) = Max(RangeScale * CoefScale, FivePercent(lm[1], lm[2]))
                /\ rng[1] < rng[2]
      /\ \A k \in RawKeysChecked :
            LET lh == << total_min(k), total_max(k) >>
                rng == estimate_raw_stat_ranges({k})[k]
            IN  /\ MarginLow(rng, lh[1]) = Max(RangeScale \div 10, FivePercent(lh[1], lh[2]))
                /\ MarginHigh(rng, lh[2]) = Max(RangeScale \div 10, FivePercent(lh[1], lh[2]))
                /\ rng[1] < rng[2]

\* Every build of the selection has the same drift score and the same
\* StartBoost, and both intervals are returned with the floor margin
C22_Witness ==
    /\ RangesDefined
    /\ lin_minmax(DRIFT_COEFFS)[1] = lin_minmax(DRIFT_COEFFS)[2]
    /\ total_min("StartBoost") = total_max("StartBoost")
    /\ MarginLow(estimate_main_score_ranges["drift"], lin_minmax(DRIFT_COEFFS)[1]) = RangeScale * CoefScale
    /\ MarginLow(estimate_raw_stat_ranges({"StartBoost"})["StartBoost"], total_min("StartBoost")) = RangeScale \div 10

\* The minimise-stats the call weights positively
MinimisedHere ==
    { raw \in ActiveRaw : raw \in MINIMISE_RAW /\ Get(Val(config.weights_raw), raw) > 0 }

\* The ranges of the call are set and its loop has not begun
BeforeLoop == pc = "check"

vectorize_strict(parts_db, category) ==
    LET items == IF category \in DOMAIN parts_db THEN parts_db[category] ELSE << >>
    IN  [ raised |-> items = << >>,
          table |-> [ r \in 1..Len(items) |->
                        [ name |-> items[r].name,
                          vec |-> [ j \in 1..NKeys |->
                                      IF RAW_STAT_KEYS[j] \in DOMAIN items[r].stats
                                      THEN items[r].stats[RAW_STAT_KEYS[j]] ELSE 0 ] ] ] ]

\* df_from_category(parts_db, category, stat_keys): the rows of
\* parts_db.get(category, []), and for no row the empty table with the
\* columns ["name"] + stat_keys; no path of it raises
vectorize(parts_db, category) ==
    LET items == IF category \in DOMAIN parts_db THEN parts_db[category] ELSE << >>
    IN  [ raised |-> FALSE,
          table |-> [ r \in 1..Len(items) |->
                        [ name |-> items[r].name,
                          vec |-> [ j \in 1..NKeys |->
                                      IF RAW_STAT_KEYS[j] \in DOMAIN items[r].stats
                                      THEN items[r].stats[RAW_STAT_KEYS[j]] ELSE 0 ] ] ] ]

\* A catalog that holds the parts of the call's selection and no other
OwnedCatalog ==
    [ cat \in Range(CATEGORIES) |->
        SelectSeq(PARTS_DATABASE[cat], LAMBDA item : item.name \in inventory[cat]) ]

\* The categories asked of the accessor: the five of the game and one that
\* no catalog holds
Requested == Range(CATEGORIES) \cup {"WHEELS"}
PartsIn(parts_db, category) ==
    IF category \in DOMAIN parts_db THEN Len(parts_db[category]) ELSE 0

\* The engine has run _filter on the selection
Filtered == pc \in {"ranges", "error"}

\* C24 as claimed: the accessor fails when the requested category has zero
\* parts
C24_EmptyCategoryFails ==
    Filtered =>
      \A cat \in Requested :
         PartsIn(OwnedCatalog, cat) = 0 => vectorize(OwnedCatalog, cat).raised

\* C24 amended: the accessor returns one row per part with every stat key
\* and never fails, so for a category with zero parts it returns the empty
\* table; the failure for a category without parts is the engine's, whose
\* _filter raises on the first category left without a row
C24_EmptyTableReturned ==
    Filtered =>
      /\ \A cat \in Requested :
            LET out == vectorize(OwnedCatalog, cat)
            IN  /\ ~out.raised
                /\ Len(out.table) = PartsIn(OwnedCatalog, cat)
                /\ \A r \in 1..Len(out.table) : Len(out.table[r].vec) = NKeys
                /\ cat \in Range(CATEGORIES) => out.table = dfSel(cat)
      /\ (\E cat \in Range(CATEGORIES) : vectorize(OwnedCatalog, cat).table = << >>)
            <=> (pc = "error" /\ err.type = "ValueError" /\ err.msg = "No selected parts in")
      /\ pc = "error" => vectorize(OwnedCatalog, err.cat).table = << >>

\* A selection that leaves the exhausts without a part: the accessor gives
\* the empty table for them and the engine has raised for that category
C24_Witness ==
    /\ pc = "error" /\ err.cat = "EXHAUST"
    /\ PartsIn(OwnedCatalog, "EXHAUST") = 0
    /\ PartsIn(OwnedCatalog, "ENGINE") > 0
    /\ vectorize(OwnedCatalog, "EXHAUST") = [raised |-> FALSE, table |-> << >>]

\* ------------------------------------------------------------------------
\* The threshold of the diversity pass
\* ------------------------------------------------------------------------
\* The rows a step appended to selected differ from each row before them in
\* the list in at least threshold part slots
AcceptedUnder(before, after, threshold) ==
    /\ Len(after) >= Len(before)
    /\ SubSeq(after, 1, Len(before)) = before
    /\ \A r \in (Len(before) + 1)..Len(after) : \A q \in 1..(r - 1) :
          hamming_parts(At(df, after[r]), At(df, after[q])) >= threshold

\* C25: the threshold starts at min_diff_parts, is lowered by exactly one
\* only after a complete scan of the candidates accepted nothing, is never
\* raised, and every accepted row differs from each row selected before it
\* in at least as many part slots as the threshold in force when it was
\* accepted
C25_ThresholdDiscipline ==
    [][ /\ (pc = "diversify" /\ pc' = "div_loop")
           => (cur_min' = config.min_diff_parts /\ selected' = << 0 >>)
        /\ (pc \in {"div_loop", "div_stalled", "div_break"})
           => /\ cur_min' <= cur_min
              /\ cur_min' # cur_min
                 => /\ cur_min' = cur_min - 1
                    /\ pc = "div_stalled" /\ ~picked
                    /\ ScanFrom(1, DivState).selected = selected
                    /\ selected' = selected
              /\ AcceptedUnder(selected, selected', cur_min)
      ]_vars

\* The threshold was relaxed and a row was then accepted that the starting
\* threshold had kept out
C25_Witness ==
    /\ pc = "div_loop"
    /\ cur_min = config.min_diff_parts - 1
    /\ Len(selected) >= 2
    /\ \E r \in 2..Len(selected) : \E q \in 1..(r - 1) :
          hamming_parts(At(df, selected[r]), At(df, selected[q])) = cur_min

\* ------------------------------------------------------------------------
\* The order of the returned table
\* ------------------------------------------------------------------------
NonIncreasing(rows) ==
    \A r \in 1..(Len(rows) - 1) : ObjGe(rows[r].objective, rows[r + 1].objective)

\* C26: the table optimise_builds returns is ordered by non-increasing
\* objective from the first row to the last, with diversity on or off and
\* also after the diversity threshold had to be relaxed
C26_ResultSorted ==
    Returned => NonIncreasing(result.rows)
\* The diversity pass ran and lowered its threshold
Relaxed == config.diverse /\ df # << >> /\ cur_min < config.min_diff_parts

\* C26 amended: the returned table is ordered by non-increasing objective
\* with diversity off, and with diversity on when the threshold was never
\* relaxed; after a relaxation the rows stand in the order they were
\* accepted, of which the first has the highest objective
C26_SortedUnlessRelaxed ==
    Returned =>
      /\ ~Relaxed => NonIncreasing(result.rows)
      /\ \A r \in 1..Len(result.rows) :
            ObjGe(result.rows[1].objective, result.rows[r].objective)

\* After a relaxation a row accepted late has a higher objective than the
\* row before it, and the first row is above both
C26_Witness ==
    /\ Returned /\ Relaxed
    /\ Len(result.rows) >= 3
    /\ ~NonIncreasing(result.rows)
    /\ \A r \in 2..Len(result.rows) :
          ObjGt(result.rows[1].objective, result.rows[r].objective)

\* ------------------------------------------------------------------------
\* The fill step of the diversity pass
\* ------------------------------------------------------------------------
\* The candidates of the scans that are not selected
Unselected == { i \in 1..(Len(df) - 1) : ~InSelected(i, selected) }

\* C27: the fill step, reached when the threshold is 0 and a complete scan
\* accepted nothing, never adds a row: every unselected candidate is blocked
\* by a quota, and the table returned is the rows selected before the fill
C27_FillAddsNothing ==
    [][ /\ (pc = "div_stalled" /\ pc' = "div_break")
           => /\ selected' = selected /\ counts' = counts
              /\ \A i \in Unselected : ~ok_quota(i, counts)
        /\ (pc = "div_break" /\ pc' = "done")
           => result'.rows = Loc(df, selected)
      ]_vars

\* The fill was reached with the table short of top_n and candidates left,
\* all of them blocked by a quota
C27_Witness ==
    /\ pc = "div_break"
    /\ cur_min = 0
    /\ Len(selected) < config.top_n
    /\ Unselected # {}
    /\ \A i \in Unselected : ~ok_quota(i, counts)

\* ------------------------------------------------------------------------
\* The stored table and the current inputs
\* ------------------------------------------------------------------------
\* No stale warning: a signature is stored and equals that of the widgets
NotStale ==
    /\ ~IsNone(session.last_run_sig)
    /\ Val(session.last_run_sig) = make_run_signature_app(inventory, config)

\* rows is a table the app stores for the inputs in the widgets: the top_n
\* best of the builds of the inventory that meet the constraints, each once,
\* best first, with the scores and the rounded objective of the build
StoredFor(rows) ==
    /\ Len(rows) = Min(config.top_n, Cardinality(Surviving))
    /\ \A r \in 1..Len(rows) :
          LET b == RowBuild(rows[r])
          IN  /\ b \in Surviving
              /\ rows[r].objective = round4(Fin(BuildObjective(b)))
              /\ rows[r].raw = BuildScores[b]
              /\ \A q \in 1..(r - 1) :
                    /\ RowBuild(rows[q]) # b
                    /\ BuildObjective(RowBuild(rows[q])) >= BuildObjective(b)
              /\ \A c \in Surviving :
                    (\A q \in 1..Len(rows) : RowBuild(rows[q]) # c)
                       => BuildObjective(b) >= BuildObjective(c)

\* C28: in the app, whenever a result table is stored and the stored last-run
\* signature equals the signature of the current inputs, the stored table is
\* the one optimise_builds produces for the current inputs
C28_FreshTableIsCurrent ==
    (pc = "idle" /\ ~IsNone(session.results_df) /\ NotStale) => StoredFor(StoredRows)

\* A table is stored under the signature of the widgets, for inputs with
\* more builds meeting the constraints than the table has rows
C28_Witness ==
    /\ pc = "idle" /\ ~IsNone(session.results_df) /\ NotStale
    /\ GivenMain # EmptyDict
    /\ Cardinality(Surviving) > config.top_n
    /\ StoredFor(StoredRows)

\* ------------------------------------------------------------------------
\* Entries of weights_raw and constraints_raw with a non-canonical key
\* ------------------------------------------------------------------------
\* The second call was given the config of the first less one entry of a
\* non-canonical key
EntryDropped == SecondCall /\ hist.given \in WithoutUnknownEntry(First.given)

\* C29: an entry of weights_raw or constraints_raw whose key is not in the
\* canonical raw-stat key list is ignored: the call raises no error and
\* returns the same table as the same call without that entry (the order the
\* sorts give to equal objectives being the same in both calls)
C29_UnknownKeyIgnored ==
    /\ (UnknownEntries(hist.given.weights_raw) \cup UnknownEntries(hist.given.constraints_raw) # {})
          => pc # "error"
    /\ (Returned /\ EntryDropped /\ tie = First.tie) => result = First.result

\* The first call had a raw constraint of a non-canonical key beside one on
\* Speed that rejects builds; the second call, without it, returned the same
\* rows
C29_Witness ==
    /\ Returned /\ EntryDropped /\ tie = First.tie
    /\ UnknownEntries(First.given.constraints_raw) # {}
    /\ UnknownEntries(hist.given.constraints_raw) = {}
    /\ result.rows # << >>
    /\ Surviving # InventoryBuilds
    /\ result = First.result

\* The same for a raw weight of a non-canonical key beside one on MaxCoins
C29_WitnessWeight ==
    /\ Returned /\ EntryDropped /\ tie = First.tie
    /\ UnknownEntries(First.given.weights_raw) # {}
    /\ UnknownEntries(hist.given.weights_raw) = {}
    /\ "MaxCoins" \in ActiveRaw
    /\ result.rows # << >>
    /\ result = First.result

\* ------------------------------------------------------------------------
\* obk/ui_render.py: the build comparison.  st.session_state holds
\* compare_idxs and compare_warn; every row of the stored table has a Compare
\* button, and the panel under the table shows the compared builds, the first
\* of them as the baseline.
\* ------------------------------------------------------------------------
max_compare == 3

\* sorted(set(idxs))
RECURSIVE SortedList(_)
SortedList(idxSet) ==
    IF idxSet = {} THEN << >>
    ELSE LET m == SetMin(idxSet) IN << m >> \o SortedList(idxSet \ {m})

\* idxs.remove(i)
ListRemove(idxs, i) == SelectSeq(idxs, LAMBDA x : x # i)

TooManyWarning == "You can compare up to"

\* on_compare_button(i, max_compare) on the session state ss
on_compare_button(ss, i) ==
    LET idxs == ss.compare_idxs
    IN  IF InSelected(i, idxs)
        THEN [ ss EXCEPT !.compare_warn = "",
                         !.compare_idxs = SortedList(Range(ListRemove(idxs, i))) ]
        ELSE IF Len(idxs) >= max_compare
             THEN [ ss EXCEPT !.compare_warn = TooManyWarning ]
             ELSE [ ss EXCEPT !.compare_warn = "",
                              !.compare_idxs = SortedList(Range(Append(idxs, i))) ]

\* The session of the app with the comparison keys at their defaults.
\* selection_order is not a key of the code: it records the builds now
\* selected in the order the user selected them.
NoComparison ==
    [ widgets |-> << >>, run |-> FALSE, results_df |-> None, last_run_sig |-> None,
      compare_idxs |-> << >>, compare_warn |-> "", selection_order |-> << >> ]

\* The user presses the Compare button of row i of the table shown
PressCompare ==
    /\ pc = "idle" /\ ~session.run
    /\ ~IsNone(session.results_df)
    /\ \E i \in 0..(Len(Val(session.results_df)) - 1) :
          session' =
             [ on_compare_button(session, i) EXCEPT
                 !.selection_order =
                    IF InSelected(i, session.compare_idxs) THEN ListRemove(@, i)
                    ELSE IF Len(session.compare_idxs) >= max_compare THEN @
                    ELSE Append(@, i) ]
    /\ UNCHANGED << pc, hist, inventory, config, tie, err, pair_work, dfE, dfX, dfS, dfG, dfT,
                    main_ranges, raw_ranges, base, t1, t2, pair_stats, p_i, results, df,
                    selected, counts, cur_min, picked, result >>

\* idxs of render_compare_panel: the stored indices that are rows of the table
PanelIdxs ==
    IF IsNone(session.results_df) THEN << >>
    ELSE SelectSeq(session.compare_idxs,
                   LAMBDA i : 0 <= i /\ i < Len(Val(session.results_df)))

\* The panel is rendered: a table is shown and at least two builds compared
PanelShown == pc = "idle" /\ Len(PanelIdxs) >= 2

\* base_i of render_diff_header
base_i == PanelIdxs[1]

\* The Clear comparison button of the panel
ClearComparison ==
    /\ ~session.run
    /\ PanelShown
    /\ session' = [ session EXCEPT !.compare_idxs = << >>, !.compare_warn = "",
                                   !.selection_order = << >> ]
    /\ UNCHANGED << pc, hist, inventory, config, tie, err, pair_work, dfE, dfX, dfS, dfG, dfT,
                    main_ranges, raw_ranges, base, t1, t2, pair_stats, p_i, results, df,
                    selected, counts, cur_min, picked, result >>

\* What the widgets hold while builds are compared
CompareInputs ==
    { << Inv(MediumGear[1], MediumGear[2], MediumGear[3], MediumGear[4], {"T0", "T1", "T3"}),
         [ top_n |-> n,
           weights_main |-> << <<"race", 2>>, <<"coin", 5>>, <<"drift", 2>>, <<"combat", 2>> >>,
           weights_raw |-> Some(EmptyDict),
           constraints_main |-> Some(EmptyDict), constraints_raw |-> Some(EmptyDict),
           normalize_objective |-> FALSE,
           diverse |-> FALSE, min_diff_parts |-> 2, per_part_max |-> None ] >> :
      n \in { MaxTopN, MaxTopN + 1 } }

CompareInit ==
    /\ \E input \in CompareInputs : inventory = input[1] /\ config = input[2]
    /\ tie \in {"first", "last"}
    /\ pc = "idle"
    /\ FreshLocals
    /\ hist = FirstCall(config)
    /\ session = NoComparison

CompareSpec ==
    CompareInit /\ [][ \/ PressRun \/ FinishRun \/ PressCompare \/ ClearComparison
                       \/ Load \/ EstimateRanges \/ Prepare \/ PairIter \/ Aggregate ]_vars

\* The builds of the panel in the order the user selected them
SelectedInOrder ==
    SelectSeq(session.selection_order, LAMBDA i : InSelected(i, PanelIdxs))

\* C30: in the build comparison the baseline is the build the user selected
\* first: whenever at least two builds are selected, the first entry of
\* compare_idxs, the one rendered as baseline, is the earliest-selected of the
\* builds still selected
C30_BaselineFirstSelected ==
    PanelShown => base_i = Head(SelectedInOrder)

====
